---- MODULE Spec2Model ----
(***************************************************************************)
(* The enhanced MAC-address whitelist handler (api/mac-auth-enhanced.js):  *)
(* one process, its in-memory store, the three storage locations and the   *)
(* requests it serves.  JavaScript runs each request to completion between *)
(* two awaited file-system calls, so a step of the model is the code from  *)
(* the completion of one fs call to the start of the next one.             *)
(***************************************************************************)
EXTENDS Integers, Sequences, FiniteSets, TLC

\* ------------------------------------------------------------------ bounds
MaxRequests == 2      \* requests that arrive during the life of the process
NumTasks == 2         \* requests (and their background persists) in flight at once
MaxCandidates == 2    \* length of a check-access candidate list
MaxBatch == 2         \* length of a bulk-add batch
StatsNow == 8         \* the wall clock of the statistics runs
MaxTime == 2          \* last value of the wall clock
MaxCalls == 3         \* method calls on the class-based database
MaxAuthRequests == 2  \* requests to api/mac-auth.js

\* ------------------------------------------------------------- vocabulary
Never == 0            \* lastSeen: null, updatedAt: absent, lastLoaded: null
OneDay == 1           \* 24 * 60 * 60 * 1000 ms, in clock units
OneWeek == 7          \* 7 * 24 * 60 * 60 * 1000 ms, in clock units

Tasks == 1..NumTasks
Locations == <<"Primary", "Backup", "Fallback">>
LocationNames == {Locations[i] : i \in 1..Len(Locations)}

NotAString == "<not-a-string>"     \* a candidate that is no string (a number, an object)
Missing == "<missing>"             \* an absent or empty body field
RawAddresses == {"aa", "AA", "bb"} \* addresses as clients spell them
AccessTypesIn == {"admin", "bogus", Missing}
NoDevice == "<no-device>"
Devices == {"d1"}
ADMIN_SECRET_KEY == "default-admin-key-change-this"
AdminKeys == {ADMIN_SECRET_KEY, "wrong-key"}

\* toLowerCase that leaves the address as it is spelled
toLowerCase_AsSpelled(s) == s

\* String.prototype.toLowerCase on the address alphabet
toLowerCase(s) ==
    CASE s = "AA" -> "aa"
      [] s = "BB" -> "bb"
      [] OTHER -> s

\* validAccessTypes with one more tier
validAccessTypes_WithBogus == {"trial", "unlimited", "admin", "bogus"}

validAccessTypes == {"trial", "unlimited", "admin"}

\* validateAdminKey that accepts any key
validateAdminKey_AcceptsAny(providedKey) == TRUE

validateAdminKey(providedKey) == providedKey = ADMIN_SECRET_KEY

\* ------------------------------------------------------------ statistics
ZeroStatistics ==
    [total |-> 0, activeLast24h |-> 0, activeLast7d |-> 0,
     neverUsed |-> 0, totalAccesses |-> 0]

\* ------------------------------------------------- the Map of the store
\* A JavaScript Map: key/value pairs in insertion order, keys unique.
MapHas(m, k) == \E i \in 1..Len(m) : m[i].key = k

MapGet(m, k) == m[CHOOSE i \in 1..Len(m) : m[i].key = k].value

\* set: replaces the value in place when the key exists, appends otherwise
MapSet(m, k, v) ==
    IF MapHas(m, k)
    THEN [i \in 1..Len(m) |-> IF m[i].key = k THEN [key |-> k, value |-> v] ELSE m[i]]
    ELSE Append(m, [key |-> k, value |-> v])

MapDelete(m, k) == SelectSeq(m, LAMBDA p : p.key # k)

\* Array.from(map.values())
MapValues(m) == [i \in 1..Len(m) |-> m[i].value]

MapKeys(m) == {m[i].key : i \in 1..Len(m)}

\* ------------------------------------------------------------- entries
\* The entry object built by add-mac and bulk-add (description is a free-text
\* label that no branch reads; it is left out).
NewEntry(normalizedMac, finalAccessType, t) ==
    [macAddress |-> normalizedMac, accessType |-> finalAccessType, addedAt |-> t,
     lastSeen |-> Never, accessCount |-> 0, lastDevice |-> NoDevice,
     updatedAt |-> Never]

\* finalAccessType that keeps whatever tier the request names
finalAccessType_AsGiven(accessType) ==
    IF accessType # Missing THEN accessType ELSE "trial"

finalAccessType(accessType) ==
    IF accessType \in validAccessTypes THEN accessType ELSE "trial"

\* --------------------------------------------------------------- files
\* What fs.readFile + JSON.parse make of a location:
\*   "ENOENT"   readFile rejects;
\*   "garbage"  JSON.parse throws;
\*   "null"     parses to null: reading .macAddresses throws a TypeError;
\*   "object"   parses to an object; hasArray tells whether macAddresses is an Array.
NoFile ==
    [kind |-> "ENOENT", hasArray |-> FALSE, macAddresses |-> <<>>,
     hasStatistics |-> FALSE, statistics |-> ZeroStatistics, lastUpdated |-> Never]
GarbageFile == [NoFile EXCEPT !.kind = "garbage"]
NullFile == [NoFile EXCEPT !.kind = "null"]
\* the map-shaped snapshot of the class-based database: macAddresses is an object
MapShapedFile == [NoFile EXCEPT !.kind = "object", !.hasStatistics = TRUE]

SnapshotFile(entries, stats) ==
    [kind |-> "object", hasArray |-> TRUE, macAddresses |-> entries,
     hasStatistics |-> TRUE, statistics |-> stats, lastUpdated |-> 1]

\* JSON.stringify(data, null, 2) as the content a later read parses back
Stringify(data) ==
    [kind |-> "object", hasArray |-> TRUE, macAddresses |-> data.macAddresses,
     hasStatistics |-> TRUE, statistics |-> data.statistics,
     lastUpdated |-> data.lastUpdated]

\* a null element of a parsed macAddresses array
NullItem == [null |-> TRUE]

\* the snapshot object saveToStorage builds from the store
Snapshot(ms, t) ==
    [macAddresses |-> MapValues(ms.macAddresses), statistics |-> ms.statistics,
     lastUpdated |-> t, version |-> "2.0"]

\* ------------------------------------------------------ loadFromStorage
\* parsed.macAddresses.forEach(entry => map.set(entry.macAddress, entry)):
\* reading .macAddress of a null element throws; the elements before it are set.
PopulateThrows(entries) == \E i \in 1..Len(entries) : entries[i] = NullItem

RECURSIVE Populate(_, _)
Populate(m, entries) ==
    IF entries = <<>> \/ Head(entries) = NullItem
    THEN m
    ELSE Populate(MapSet(m, Head(entries).macAddress, Head(entries)), Tail(entries))

\* { ...memoryStore.statistics, ...parsed.statistics }
SpreadStatistics(cur, parsed) ==
    [f \in DOMAIN cur \cup DOMAIN parsed |->
        IF f \in DOMAIN parsed THEN parsed[f] ELSE cur[f]]

\* LoadFrom without the Array.isArray test: any parsed object wins
LoadFrom_AnyObjectWins(ms, file, t) ==
    IF file.kind # "object"
    THEN [ms |-> ms, loaded |-> FALSE]
    ELSE IF PopulateThrows(file.macAddresses)
    THEN [ms |-> [ms EXCEPT !.macAddresses = Populate(<<>>, file.macAddresses)],
          loaded |-> FALSE]
    ELSE [ms |-> [ms EXCEPT !.macAddresses = Populate(<<>>, file.macAddresses),
                            !.lastLoaded = t],
          loaded |-> TRUE]

\* LoadFrom without memoryStore.macAddresses.clear(): the entries are set on
\* top of what the Map holds
LoadFrom_NoClear(ms, file, t) ==
    IF file.kind # "object" \/ ~file.hasArray
    THEN [ms |-> ms, loaded |-> FALSE]
    ELSE IF PopulateThrows(file.macAddresses)
    THEN [ms |-> [ms EXCEPT !.macAddresses = Populate(@, file.macAddresses)],
          loaded |-> FALSE]
    ELSE [ms |-> [ms EXCEPT !.macAddresses = Populate(@, file.macAddresses),
                            !.statistics = IF file.hasStatistics
                                           THEN SpreadStatistics(@, file.statistics)
                                           ELSE @,
                            !.lastLoaded = t],
          loaded |-> TRUE]

\* One turn of the loop over the sources: what the store is after the body has
\* run on the content read, and whether the body returned (loaded) or went on
\* to the next source (fell out of the if, or threw into the catch).
LoadFrom(ms, file, t) ==
    IF file.kind # "object" \/ ~file.hasArray
    THEN [ms |-> ms, loaded |-> FALSE]
    ELSE IF PopulateThrows(file.macAddresses)
    THEN [ms |-> [ms EXCEPT !.macAddresses = Populate(<<>>, file.macAddresses)],
          loaded |-> FALSE]
    ELSE [ms |-> [ms EXCEPT !.macAddresses = Populate(<<>>, file.macAddresses),
                            !.statistics = IF file.hasStatistics
                                           THEN SpreadStatistics(@, file.statistics)
                                           ELSE @,
                            !.lastLoaded = t],
          loaded |-> TRUE]

\* ------------------------------------------------- contents found on disk
Fresh(k) == NewEntry(k, "trial", 1)
Used(k) == [Fresh(k) EXCEPT !.lastSeen = 1, !.accessCount = 1, !.lastDevice = "d0"]

StatsOf(n, used) ==
    [total |-> n, activeLast24h |-> used, activeLast7d |-> used,
     neverUsed |-> n - used, totalAccesses |-> used]

\* the storage as the process finds it
InitialFiles ==
    { NoFile, GarbageFile, NullFile, MapShapedFile,
      SnapshotFile(<<>>, StatsOf(0, 0)),
      SnapshotFile(<<Fresh("aa")>>, StatsOf(1, 0)),
      SnapshotFile(<<Used("aa"), Fresh("bb")>>, StatsOf(2, 1)),
      SnapshotFile(<<Fresh("bb"), NullItem>>, StatsOf(1, 0)),
      SnapshotFile(<<Fresh("aa"), Used("aa")>>, StatsOf(1, 1)),
      [SnapshotFile(<<Fresh("AA")>>, ZeroStatistics) EXCEPT !.hasStatistics = FALSE] }

\* a first run, and a process recycled after an earlier one persisted everywhere
InitialDisks ==
    { [l \in LocationNames |-> NoFile],
      [l \in LocationNames |-> SnapshotFile(<<Used("aa"), Fresh("bb")>>, StatsOf(2, 1))] }

\* What the file system lets the process do, for the life of the process:
\* whether the directory of Primary can be made, and which paths can be written
\* (a read-only deployment bundle, a full or missing scratch area).
FileSystems ==
    {f \in [mkdir : BOOLEAN, writable : SUBSET LocationNames] :
        ~f.mkdir => "Primary" \notin f.writable}

\* ------------------------------------------------------------ requests
\* req.method, req.query.action and the fields of req.body (bulk-add's
\* macAddresses array of items is `items`)
NoRequest ==
    [method |-> "none", action |-> "none", macAddresses |-> <<>>, macAddress |-> Missing,
     accessType |-> Missing, adminKey |-> Missing, deviceInfo |-> NoDevice,
     items |-> <<>>, isArray |-> TRUE]

Post(action) == [NoRequest EXCEPT !.method = "POST", !.action = action]

\* candidate lists of check-access: 1..MaxCandidates addresses, any of which may
\* be no string at all; the empty list stands for a missing or empty array
CandidateLists ==
    UNION {[1..n -> RawAddresses \cup {NotAString}] : n \in 0..MaxCandidates}

\* items of a bulk-add batch: an address (or none) with a tier, or a null item
BulkItems ==
    {[macAddress |-> a, accessType |-> "admin"] : a \in RawAddresses \cup {Missing}}
        \cup {[macAddress |-> "bb", accessType |-> "bogus"], NullItem}

Batches == UNION {[1..n -> BulkItems] : n \in 0..MaxBatch}

Requests ==
    {[Post("check-access") EXCEPT !.macAddresses = c, !.deviceInfo = d] :
        c \in CandidateLists, d \in Devices \cup {NoDevice}}
    \cup {[Post("add-mac") EXCEPT !.macAddress = a, !.accessType = t, !.adminKey = k] :
        a \in RawAddresses \cup {Missing}, t \in AccessTypesIn, k \in AdminKeys}
    \cup {[Post("update-access") EXCEPT !.macAddress = a, !.accessType = t, !.adminKey = k] :
        a \in RawAddresses \cup {Missing}, t \in AccessTypesIn, k \in AdminKeys}
    \cup {[Post("remove-mac") EXCEPT !.macAddress = a, !.adminKey = k] :
        a \in RawAddresses \cup {Missing}, k \in AdminKeys}
    \cup {[Post("bulk-add") EXCEPT !.items = b, !.adminKey = k] :
        b \in Batches, k \in AdminKeys}
    \cup {[Post("list-macs") EXCEPT !.adminKey = k] : k \in AdminKeys}
    \cup {[Post(a) EXCEPT !.isArray = FALSE, !.adminKey = ADMIN_SECRET_KEY] :
        a \in {"check-access", "bulk-add"}}
    \cup {Post("health"), Post("no-such-action"),
          [Post("add-mac") EXCEPT !.method = "OPTIONS"]}

NoResponse ==
    [status |-> 0, sent |-> FALSE, persistent |-> "absent", macAddress |-> Missing,
     accessType |-> Missing, accessCount |-> 0, lastSeen |-> Never,
     results |-> <<>>, totalAdded |-> 0]

Response(status) == [NoResponse EXCEPT !.status = status, !.sent = TRUE]

\* --------------------------------------------------------------- state
VARIABLES
    memoryStore,    \* macAddresses (the Map), statistics, lastLoaded, initialized
    MEMORY_BACKUP,  \* STRATEGIES.MEMORY_BACKUP: the call whose `data` object it holds, 0 = null
    disk,           \* content of each storage location
    fs,             \* which fs.mkdir / fs.writeFile calls the file system rejects
    now,            \* the wall clock
    running,        \* the task that holds the event loop between two awaits, or 0
    pc,             \* where each task is suspended
    load,           \* loadFromStorage of a task: source being read, what was read
    save,           \* saveToStorage of a task: data, target being written, results
    resp,           \* the response of a task
    req,            \* the request of a task, where a run keeps it (SpecAccess)
    arrived,        \* requests received so far
    saveCount,      \* saveToStorage invocations so far
    landed,         \* per location, the saveToStorage whose write completed last
    peer,           \* a second process instance on the same storage locations
    macFile,        \* MACDatabase: content of mac-whitelist.json
    logFile,        \* MACDatabase: content of access-log.json
    dbFs,           \* MACDatabase: which fs.mkdir / fs.writeFile calls are rejected
    dbInit,         \* MACDatabase: where initializeDatabase, started by the constructor, is
    dbCall,         \* MACDatabase: the method call of each task
    dbCalls,        \* MACDatabase: method calls made so far
    macWhitelist,   \* api/mac-auth.js: the Map of entries
    authStatistics, \* api/mac-auth.js: the statistics object
    DATA_FILE,      \* api/mac-auth.js: content of data/mac-whitelist.json
    BACKUP_FILE,    \* api/mac-auth.js: content of /tmp/mac-whitelist-backup.json
    authFs,         \* api/mac-auth.js: which of the two files accept a write
    authReq,        \* api/mac-auth.js: the request of each task
    authArrived,    \* api/mac-auth.js: requests received so far
    rateLimitStore, \* rate limiter: the Map of windows, one per identifier
    rateCall,       \* rate limiter: the last request of the earlier handler and its outcome
    recycled        \* what the process that was recycled had persisted last

\* the class-based database of the earlier handler
dbVars == <<macFile, logFile, dbFs, dbInit, dbCall, dbCalls>>

\* the handler with the main file and the backup file
authVars ==
    <<macWhitelist, authStatistics, DATA_FILE, BACKUP_FILE, authFs, authReq, authArrived>>

\* the rate limiter of the earlier handler
rateVars == <<rateLimitStore, rateCall>>

\* the other implementations of the whitelist
variants == <<dbVars, authVars, rateVars>>

\* the state outside the one instance of the enhanced handler
others == <<peer, variants, recycled>>

\* the state of the one instance of the enhanced handler, the clock apart
enhanced ==
    <<memoryStore, MEMORY_BACKUP, disk, fs, running, pc, load, save, resp, req,
      arrived, saveCount, landed, recycled>>

vars ==
    <<memoryStore, MEMORY_BACKUP, disk, fs, now, running, pc, load, save, resp,
      req, arrived, saveCount, landed, others>>

EmptySnapshot ==
    [macAddresses |-> <<>>, statistics |-> ZeroStatistics, lastUpdated |-> Never,
     version |-> "2.0"]

\* no second instance: nothing loaded, nothing to write
NoPeer ==
    [macAddresses |-> <<>>, statistics |-> ZeroStatistics, data |-> EmptySnapshot,
     target |-> 0, added |-> Missing]

\* mac-whitelist.json before initializeDatabase or any write created it; a
\* read of it fails and readDatabase returns the empty default
NoDatabase ==
    [exists |-> FALSE, macAddresses |-> <<>>,
     statistics |-> [totalDevices |-> 0, totalAccesses |-> 0]]

\* access-log.json before initializeDatabase created it
NoLog == [exists |-> FALSE, accessEvents |-> <<>>]

\* no method call on the task
NoCall ==
    [pc |-> "idle", op |-> "none", macAddresses |-> <<>>, macAddress |-> Missing,
     accessType |-> Missing, deviceInfo |-> NoDevice, data |-> NoDatabase,
     logData |-> NoLog,
     result |-> [success |-> FALSE, returned |-> FALSE, macAddresses |-> <<>>,
                 statistics |-> ZeroStatistics]]

\* the class-based database is not in use
DatabaseIdle ==
    /\ macFile = NoDatabase
    /\ logFile = NoLog
    /\ dbFs = [mkdir |-> TRUE, writable |-> TRUE]
    /\ dbInit = [pc |-> "done"]
    /\ dbCall = [r \in Tasks |-> NoCall]
    /\ dbCalls = 0

\* no request on the task of api/mac-auth.js
NoAuthRequest ==
    [pc |-> "idle", method |-> "POST", action |-> "none", macAddress |-> Missing,
     macAddresses |-> <<>>, items |-> <<>>, accessType |-> Missing,
     adminKey |-> Missing, deviceInfo |-> NoDevice, backupData |-> NoFile, seen |-> <<>>,
     jsonData |-> NoFile, pending |-> 0, status |-> 0]

\* api/mac-auth.js is not in use
AuthIdle ==
    /\ macWhitelist = <<>>
    /\ authStatistics = ZeroStatistics
    /\ DATA_FILE = NoFile
    /\ BACKUP_FILE = NoFile
    /\ authFs = [main |-> TRUE, backup |-> TRUE]
    /\ authReq = [r \in Tasks |-> NoAuthRequest]
    /\ authArrived = 0

\* no request has reached the earlier handler
NoRateCall ==
    [identifier |-> Missing, method |-> "none", allowed |-> FALSE, status |-> 0]

\* no identifier has called the rate limiter
RateIdle ==
    /\ rateLimitStore = <<>>
    /\ rateCall = NoRateCall

\* the process has not been recycled
NoRecycle == [n |-> 0, data |-> EmptySnapshot]

\* the one instance of the enhanced handler runs alone
OthersIdle ==
    peer = NoPeer /\ DatabaseIdle /\ AuthIdle /\ RateIdle /\ recycled = NoRecycle

NoLoad == [source |-> 0, reads |-> <<>>, winner |-> 0]
NoSave == [id |-> 0, data |-> EmptySnapshot, target |-> 0, results |-> <<>>,
           awaited |-> FALSE]

Init ==
    /\ memoryStore = [macAddresses |-> <<>>, statistics |-> ZeroStatistics,
                      lastLoaded |-> Never, initialized |-> FALSE]
    /\ MEMORY_BACKUP = [id |-> 0]
    /\ disk \in InitialDisks
    /\ fs \in FileSystems
    /\ now = 1
    /\ running = 0
    /\ pc = [r \in Tasks |-> "idle"]
    /\ load = [r \in Tasks |-> NoLoad]
    /\ save = [r \in Tasks |-> NoSave]
    /\ resp = [r \in Tasks |-> NoResponse]
    /\ req = [r \in Tasks |-> NoRequest]
    /\ arrived = 0
    /\ saveCount = 0
    /\ landed = [l \in LocationNames |-> 0]
    /\ OthersIdle

\* new Date() / Date.now() move on.  The clock is let to advance between
\* requests: the timestamps taken while requests are in flight are equal.
Tick ==
    /\ now < MaxTime
    /\ \A r \in Tasks : pc[r] \in {"idle", "done"}
    /\ now' = now + 1
    /\ UNCHANGED <<memoryStore, MEMORY_BACKUP, disk, fs, others, running, pc, load, save,
                   resp, req, arrived, saveCount, landed>>

\* ------------------------------------------- handler, initializeStorage
\* A request arrives: handler calls initializeStorage, which returns at once
\* when the store is initialized and otherwise enters loadFromStorage, where the
\* task is suspended on the first fs.readFile.  Nothing of the request is read
\* before initializeStorage has returned: its content is drawn where the handler
\* first reads it.
handler(r) ==
    /\ running = 0
    /\ pc[r] \in {"idle", "done"}
    /\ \A q \in 1..(r - 1) : pc[q] \notin {"idle", "done"}
    /\ arrived < MaxRequests
    /\ arrived' = arrived + 1
    /\ resp' = [resp EXCEPT ![r] = NoResponse]
    /\ req' = [req EXCEPT ![r] = NoRequest]
    /\ save' = [save EXCEPT ![r] = NoSave]
    /\ IF memoryStore.initialized
       THEN /\ pc' = [pc EXCEPT ![r] = "loaded"]
            /\ load' = [load EXCEPT ![r] = NoLoad]
            /\ running' = r
       ELSE /\ pc' = [pc EXCEPT ![r] = "readFile"]
            /\ load' = [load EXCEPT ![r] = [NoLoad EXCEPT !.source = 1]]
            /\ running' = 0
    /\ UNCHANGED <<memoryStore, MEMORY_BACKUP, disk, fs, others, now, saveCount, landed>>

\* AllSourcesFailed without the final clear
AllSourcesFailed_NoClear(ms) == ms

\* the store when every source has failed: memoryStore.macAddresses.clear()
AllSourcesFailed(ms) == [ms EXCEPT !.macAddresses = <<>>]

\* initializeStorage after loadFromStorage has returned
Initialized(ms) == [ms EXCEPT !.initialized = TRUE]

\* fs.readFile of the current source completes: the loop body runs on what was
\* read, then either the next readFile starts or loadFromStorage returns and
\* initializeStorage marks the store initialized.
loadFromStorage(r) ==
    /\ running = 0
    /\ pc[r] = "readFile"
    /\ LET file == disk[Locations[load[r].source]]
            out == LoadFrom(memoryStore, file, now)
            reads == Append(load[r].reads,
                            [name |-> Locations[load[r].source], file |-> file])
        IN  IF out.loaded
            THEN /\ memoryStore' = Initialized(out.ms)
                 /\ load' = [load EXCEPT ![r] = [source |-> 0, reads |-> reads,
                                                 winner |-> load[r].source]]
                 /\ pc' = [pc EXCEPT ![r] = "loaded"]
                 /\ running' = r
            ELSE IF load[r].source < Len(Locations)
            THEN /\ memoryStore' = out.ms
                 /\ load' = [load EXCEPT ![r] = [source |-> load[r].source + 1,
                                                 reads |-> reads, winner |-> 0]]
                 /\ UNCHANGED <<pc, running>>
            ELSE /\ memoryStore' = Initialized(AllSourcesFailed(out.ms))
                 /\ load' = [load EXCEPT ![r] = [source |-> 0, reads |-> reads,
                                                 winner |-> 0]]
                 /\ pc' = [pc EXCEPT ![r] = "loaded"]
                 /\ running' = r
    /\ UNCHANGED <<MEMORY_BACKUP, disk, fs, others, now, save, resp, req, arrived,
                   saveCount, landed>>

\* -------------------------------------------------------- saveToStorage
\* results.push({ name, success, error })
Result(name, success, error) == [name |-> name, success |-> success, error |-> error]

\* results.filter(r => r.success).length
successCount(results) == Cardinality({i \in 1..Len(results) : results[i].success})

\* saved as "every location accepted the write"
saved_EveryLocation(results) == successCount(results) = Len(results)

\* the value saveToStorage returns
saved(results) == successCount(results) > 0

\* The synchronous head of saveToStorage: `data` is built and serialized from
\* the store as it is now, and the task is suspended on fs.mkdir for Primary.
\* `response` is what the caller has ready: sent already (check-access does not
\* await the persist) or to be sent with persistent: saved.
saveToStorage(r, ms, response) ==
    /\ save' = [save EXCEPT ![r] = [id |-> saveCount + 1, data |-> Snapshot(ms, now),
                                    target |-> 1, results |-> <<>>,
                                    awaited |-> ~response.sent]]
    /\ saveCount' = saveCount + 1
    /\ resp' = [resp EXCEPT ![r] = response]
    /\ pc' = [pc EXCEPT ![r] = "mkdir"]

\* Reply of a handler that answers 500 when nothing was persisted
Reply_FailsWhenNotPersisted(response, persisted) ==
    [response EXCEPT !.sent = TRUE,
                     !.status = IF persisted THEN @ ELSE 500,
                     !.persistent = IF persisted THEN "true" ELSE "false"]

\* Reply of a handler that never calls res.json after the persist
Reply_NeverSent(response, persisted) ==
    [response EXCEPT !.persistent = IF persisted THEN "true" ELSE "false"]

\* the response of a handler that awaited saveToStorage: the status it had
\* ready, with persistent: saved
Reply(response, persisted) ==
    [response EXCEPT !.sent = TRUE,
                     !.persistent = IF persisted THEN "true" ELSE "false"]

\* NextTarget of a loop that a failed target ends: no later target is tried
NextTarget_StopAtFailure(r, results) ==
    IF save[r].target < Len(Locations) /\ results[Len(results)].success
    THEN /\ save' = [save EXCEPT ![r].target = @ + 1, ![r].results = results]
         /\ pc' = [pc EXCEPT ![r] = "writeFile"]
         /\ UNCHANGED <<MEMORY_BACKUP, resp>>
    ELSE /\ save' = [save EXCEPT ![r].target = 0, ![r].results = results]
         /\ pc' = [pc EXCEPT ![r] = "done"]
         /\ MEMORY_BACKUP' = [id |-> save[r].id]
         /\ resp' = IF save[r].awaited
                    THEN [resp EXCEPT ![r] = Reply(resp[r], saved(results))]
                    ELSE resp

\* NextTarget that assigns the memory backup only when a write succeeded
NextTarget_BackupOnlyWhenSaved(r, results) ==
    IF save[r].target < Len(Locations)
    THEN /\ save' = [save EXCEPT ![r].target = @ + 1, ![r].results = results]
         /\ pc' = [pc EXCEPT ![r] = "writeFile"]
         /\ UNCHANGED <<MEMORY_BACKUP, resp>>
    ELSE /\ save' = [save EXCEPT ![r].target = 0, ![r].results = results]
         /\ pc' = [pc EXCEPT ![r] = "done"]
         /\ MEMORY_BACKUP' = IF saved(results)
                             THEN [id |-> save[r].id]
                             ELSE MEMORY_BACKUP
         /\ resp' = IF save[r].awaited
                    THEN [resp EXCEPT ![r] = Reply(resp[r], saved(results))]
                    ELSE resp

\* the task goes on with the next target, or saveToStorage returns: the memory
\* backup is assigned and an awaiting handler sends its response
NextTarget(r, results) ==
    IF save[r].target < Len(Locations)
    THEN /\ save' = [save EXCEPT ![r].target = @ + 1, ![r].results = results]
         /\ pc' = [pc EXCEPT ![r] = "writeFile"]
         /\ UNCHANGED <<MEMORY_BACKUP, resp>>
    ELSE /\ save' = [save EXCEPT ![r].target = 0, ![r].results = results]
         /\ pc' = [pc EXCEPT ![r] = "done"]
         /\ MEMORY_BACKUP' = [id |-> save[r].id]
         /\ resp' = IF save[r].awaited
                    THEN [resp EXCEPT ![r] = Reply(resp[r], saved(results))]
                    ELSE resp

\* fs.mkdir(dirname(Primary), { recursive: true }) completes; when it rejects,
\* the catch records the failure of Primary and its writeFile is never called
saveToStorageMkdir(r) ==
    /\ running = 0
    /\ pc[r] = "mkdir"
    /\ IF fs.mkdir
        THEN /\ pc' = [pc EXCEPT ![r] = "writeFile"]
             /\ UNCHANGED <<save, MEMORY_BACKUP, resp>>
        ELSE NextTarget(r, Append(save[r].results,
                                  Result(Locations[save[r].target], FALSE, "mkdir")))
    /\ UNCHANGED <<memoryStore, disk, fs, others, now, running, load, req, arrived,
                   saveCount, landed>>

\* WriteFile that keeps the entries of the file that jsonData does not hold
WriteFile_KeepsOtherEntries(file, jsonData) ==
    [jsonData EXCEPT !.macAddresses =
        @ \o SelectSeq(file.macAddresses,
                       LAMBDA e : \A i \in 1..Len(jsonData.macAddresses) :
                                     jsonData.macAddresses[i].macAddress # e.macAddress)]

\* what a file holds after fs.writeFile(path, jsonData) on it: jsonData
WriteFile(file, jsonData) == jsonData

\* fs.writeFile(target.path, jsonData) completes: the file holds jsonData, or the
\* call rejected and the file is as it was
\* jsonData serialized again from the live store at every write
jsonDataOf_LiveStore(r) == Stringify(Snapshot(memoryStore, now))

\* const jsonData = JSON.stringify(data, null, 2): the string of line 95,
\* made once from the data object of lines 88-93
jsonDataOf(r) == Stringify(save[r].data)

saveToStorageWrite(r) ==
    /\ running = 0
    /\ pc[r] = "writeFile"
    /\ LET l == Locations[save[r].target]
           ok == l \in fs.writable
       IN   /\ disk' = IF ok THEN [disk EXCEPT ![l] = WriteFile(@, jsonDataOf(r))]
                       ELSE disk
            /\ landed' = IF ok THEN [landed EXCEPT ![l] = save[r].id] ELSE landed
            /\ NextTarget(r, Append(save[r].results,
                                    IF ok THEN Result(l, TRUE, "")
                                    ELSE Result(l, FALSE, "writeFile")))
    /\ UNCHANGED <<memoryStore, fs, others, now, running, load, req, arrived, saveCount>>

\* ----------------------------------------------------- updateStatistics
RECURSIVE SumAccessCount(_)
SumAccessCount(entries) ==
    IF entries = <<>> THEN 0
    ELSE Head(entries).accessCount + SumAccessCount(Tail(entries))

\* updateStatistics without the resets of lines 137-140
updateStatistics_NoReset(ms, t) ==
    LET entries == MapValues(ms.macAddresses)
        seen(P(_)) == Cardinality({i \in 1..Len(entries) : P(entries[i])})
        never(e) == e.lastSeen = Never
        lastDay(e) == e.lastSeen # Never /\ e.lastSeen > t - OneDay
        lastWeek(e) == e.lastSeen # Never /\ e.lastSeen > t - OneWeek
    IN  [ms EXCEPT !.statistics =
            [@ EXCEPT !.total = Len(ms.macAddresses),
                      !.activeLast24h = @ + seen(lastDay),
                      !.activeLast7d = @ + seen(lastWeek),
                      !.neverUsed = @ + seen(never),
                      !.totalAccesses = @ + SumAccessCount(entries)]]

\* updateStatistics whose week test is the else branch of the day test
updateStatistics_WeekElseDay(ms, t) ==
    LET entries == MapValues(ms.macAddresses)
        seen(P(_)) == Cardinality({i \in 1..Len(entries) : P(entries[i])})
        never(e) == e.lastSeen = Never
        lastDay(e) == e.lastSeen # Never /\ e.lastSeen > t - OneDay
        lastWeek(e) ==
            e.lastSeen # Never /\ ~(e.lastSeen > t - OneDay)
                /\ e.lastSeen > t - OneWeek
    IN  [ms EXCEPT !.statistics =
            [@ EXCEPT !.total = Len(ms.macAddresses),
                      !.activeLast24h = seen(lastDay),
                      !.activeLast7d = seen(lastWeek),
                      !.neverUsed = seen(never),
                      !.totalAccesses = SumAccessCount(entries)]]

\* one pass over the entries against a single `now`
updateStatistics(ms, t) ==
    LET entries == MapValues(ms.macAddresses)
        seen(P(_)) == Cardinality({i \in 1..Len(entries) : P(entries[i])})
        never(e) == e.lastSeen = Never
        lastDay(e) == e.lastSeen # Never /\ e.lastSeen > t - OneDay
        lastWeek(e) == e.lastSeen # Never /\ e.lastSeen > t - OneWeek
    IN  [ms EXCEPT !.statistics =
            [@ EXCEPT !.total = Len(ms.macAddresses),
                      !.activeLast24h = seen(lastDay),
                      !.activeLast7d = seen(lastWeek),
                      !.neverUsed = seen(never),
                      !.totalAccesses = SumAccessCount(entries)]]

\* ---------------------------------------------------- handleCheckAccess
\* ScanCandidates that looks at the first candidate only
ScanCandidates_FirstOnly(m, candidates, i) ==
    IF candidates[i] = NotAString
    THEN [outcome |-> "throw", key |-> Missing, index |-> i]
    ELSE IF MapHas(m, toLowerCase(candidates[i]))
    THEN [outcome |-> "match", key |-> toLowerCase(candidates[i]), index |-> i]
    ELSE [outcome |-> "none", key |-> Missing, index |-> 0]

\* ScanCandidates of a loop without its break: every candidate is looked up
\* and the last whitelisted one is kept
RECURSIVE ScanCandidates_NoBreak(_, _, _)
ScanCandidates_NoBreak(m, candidates, i) ==
    IF i > Len(candidates) THEN [outcome |-> "none", key |-> Missing, index |-> 0]
    ELSE IF candidates[i] = NotAString
    THEN [outcome |-> "throw", key |-> Missing, index |-> i]
    ELSE LET rest == ScanCandidates_NoBreak(m, candidates, i + 1)
         IN  IF rest.outcome = "none" /\ MapHas(m, toLowerCase(candidates[i]))
             THEN [outcome |-> "match", key |-> toLowerCase(candidates[i]),
                   index |-> i]
             ELSE rest

\* for (const macAddress of macAddresses): toLowerCase of a non-string throws;
\* the first candidate whose lowercase form is a key of the Map ends the scan
RECURSIVE ScanCandidates(_, _, _)
ScanCandidates(m, candidates, i) ==
    IF i > Len(candidates) THEN [outcome |-> "none", key |-> Missing, index |-> 0]
    ELSE IF candidates[i] = NotAString
    THEN [outcome |-> "throw", key |-> Missing, index |-> i]
    ELSE IF MapHas(m, toLowerCase(candidates[i]))
    THEN [outcome |-> "match", key |-> toLowerCase(candidates[i]), index |-> i]
    ELSE ScanCandidates(m, candidates, i + 1)

\* Authorize that records the device of the first access only
Authorize_KeepsFirstDevice(entry, deviceInfo, t) ==
    [entry EXCEPT !.lastSeen = t,
                  !.accessCount = @ + 1,
                  !.lastDevice = IF deviceInfo # NoDevice /\ @ = NoDevice
                                 THEN deviceInfo ELSE @]

\* the bookkeeping on the authorized entry
Authorize(entry, deviceInfo, t) ==
    [entry EXCEPT !.lastSeen = t,
                  !.accessCount = @ + 1,
                  !.lastDevice = IF deviceInfo # NoDevice THEN deviceInfo ELSE @]

\* ------------------------------------------------------- handleBulkAdd
\* The loop over the batch: the Map after it, how many were added, and whether
\* an item made it throw (destructuring a null item); the items before it stay.
\* results holds the per-item records of the response.
\* BulkLoop without the look-up of the store: an address that is already a key
\* is set again and counted as added
RECURSIVE BulkLoop_NoDuplicateCheck(_, _, _, _)
BulkLoop_NoDuplicateCheck(m, items, addedCount, t) ==
    IF items = <<>>
    THEN [map |-> m, addedCount |-> addedCount, threw |-> FALSE, results |-> <<>>]
    ELSE IF Head(items) = NullItem
    THEN [map |-> m, addedCount |-> addedCount, threw |-> TRUE, results |-> <<>>]
    ELSE LET item == Head(items)
             normalizedMac == toLowerCase(item.macAddress)
             pushed(result, rest) == [rest EXCEPT !.results = <<result>> \o @]
         IN  IF item.macAddress = Missing
             THEN pushed([macAddress |-> "invalid", success |-> FALSE,
                          message |-> "Invalid MAC address"],
                         BulkLoop_NoDuplicateCheck(m, Tail(items), addedCount, t))
             ELSE pushed([macAddress |-> normalizedMac, success |-> TRUE,
                          message |-> "Added successfully"],
                         BulkLoop_NoDuplicateCheck(
                             MapSet(m, normalizedMac,
                                    NewEntry(normalizedMac,
                                             finalAccessType(item.accessType), t)),
                             Tail(items), addedCount + 1, t))

RECURSIVE BulkLoop(_, _, _, _)
BulkLoop(m, items, addedCount, t) ==
    IF items = <<>>
    THEN [map |-> m, addedCount |-> addedCount, threw |-> FALSE, results |-> <<>>]
    ELSE IF Head(items) = NullItem
    THEN [map |-> m, addedCount |-> addedCount, threw |-> TRUE, results |-> <<>>]
    ELSE LET item == Head(items)
             normalizedMac == toLowerCase(item.macAddress)
             pushed(result, rest) == [rest EXCEPT !.results = <<result>> \o @]
         IN  IF item.macAddress = Missing
             THEN pushed([macAddress |-> "invalid", success |-> FALSE,
                          message |-> "Invalid MAC address"],
                         BulkLoop(m, Tail(items), addedCount, t))
             ELSE IF MapHas(m, normalizedMac)
             THEN pushed([macAddress |-> normalizedMac, success |-> FALSE,
                          message |-> "Already exists"],
                         BulkLoop(m, Tail(items), addedCount, t))
             ELSE pushed([macAddress |-> normalizedMac, success |-> TRUE,
                          message |-> "Added successfully"],
                         BulkLoop(MapSet(m, normalizedMac,
                                         NewEntry(normalizedMac,
                                                  finalAccessType(item.accessType), t)),
                                  Tail(items), addedCount + 1, t))

\* ------------------------------------------------------------ dispatch
\* The handler resumes after initializeStorage and runs the action's handler
\* up to its response or to the first await inside saveToStorage.
Dispatch(r, request, action) ==
    /\ running = r
    /\ pc[r] = "loaded"
    /\ request.method # "OPTIONS"
    /\ request.action = action
    /\ running' = 0
    /\ load' = [load EXCEPT ![r] = NoLoad]
    /\ UNCHANGED <<MEMORY_BACKUP, disk, fs, others, now, arrived, landed>>

\* a response with no persist behind it
Respond(r, response) ==
    /\ resp' = [resp EXCEPT ![r] = response]
    /\ pc' = [pc EXCEPT ![r] = "done"]
    /\ UNCHANGED <<save, saveCount>>

\* a response that waits for saveToStorage to return, with the fields of the
\* entry as the handler left them before the await
Pending(status, key) ==
    [NoResponse EXCEPT !.status = status, !.macAddress = key]

handleOptions(r, request) ==
    /\ running = r
    /\ pc[r] = "loaded"
    /\ request.method = "OPTIONS"
    /\ running' = 0
    /\ load' = [load EXCEPT ![r] = NoLoad]
    /\ Respond(r, Response(200))
    /\ UNCHANGED <<memoryStore, MEMORY_BACKUP, disk, fs, others, now, arrived, landed>>

handleInvalidAction(r, request) ==
    /\ Dispatch(r, request, "no-such-action")
    /\ Respond(r, Response(400))
    /\ UNCHANGED memoryStore

handleHealthCheck(r, request) ==
    /\ Dispatch(r, request, "health")
    /\ Respond(r, Response(200))
    /\ UNCHANGED memoryStore

handleCheckAccess(r, request) ==
    /\ Dispatch(r, request, "check-access")
    /\ LET scan == ScanCandidates(memoryStore.macAddresses, request.macAddresses, 1)
       IN  IF ~request.isArray \/ Len(request.macAddresses) = 0
           THEN Respond(r, Response(400)) /\ UNCHANGED memoryStore
           ELSE IF scan.outcome = "throw"
           THEN Respond(r, Response(500)) /\ UNCHANGED memoryStore
           ELSE IF scan.outcome = "none"
           THEN Respond(r, Response(403)) /\ UNCHANGED memoryStore
           ELSE LET entry == Authorize(MapGet(memoryStore.macAddresses, scan.key),
                                       request.deviceInfo, now)
                    ms == [memoryStore EXCEPT
                              !.macAddresses = MapSet(@, scan.key, entry)]
                IN  /\ memoryStore' = ms
                    /\ saveToStorage(r, ms,
                           [Response(200) EXCEPT !.macAddress = entry.macAddress,
                                                 !.accessType = entry.accessType,
                                                 !.accessCount = entry.accessCount,
                                                 !.lastSeen = entry.lastSeen])

handleAddMAC(r, request) ==
    /\ Dispatch(r, request, "add-mac")
    /\ LET normalizedMac == toLowerCase(request.macAddress)
           entry == NewEntry(normalizedMac, finalAccessType(request.accessType), now)
           ms == [memoryStore EXCEPT !.macAddresses = MapSet(@, normalizedMac, entry)]
       IN  IF ~validateAdminKey(request.adminKey)
           THEN Respond(r, Response(403)) /\ UNCHANGED memoryStore
           ELSE IF request.macAddress = Missing
           THEN Respond(r, Response(400)) /\ UNCHANGED memoryStore
           ELSE IF MapHas(memoryStore.macAddresses, normalizedMac)
           THEN Respond(r, Response(409)) /\ UNCHANGED memoryStore
           ELSE /\ memoryStore' = ms
                /\ saveToStorage(r, ms,
                       [Pending(201, normalizedMac) EXCEPT
                           !.accessType = entry.accessType])

\* handleUpdateAccess that stamps addedAt along with updatedAt
handleUpdateAccess_StampsAddedAt(r, request) ==
    /\ Dispatch(r, request, "update-access")
    /\ LET normalizedMac == toLowerCase(request.macAddress)
           entry == [MapGet(memoryStore.macAddresses, normalizedMac) EXCEPT
                        !.accessType = request.accessType, !.updatedAt = now,
                        !.addedAt = now]
           ms == [memoryStore EXCEPT !.macAddresses = MapSet(@, normalizedMac, entry)]
       IN  IF ~validateAdminKey(request.adminKey)
           THEN Respond(r, Response(403)) /\ UNCHANGED memoryStore
           ELSE IF request.macAddress = Missing \/ request.accessType = Missing
           THEN Respond(r, Response(400)) /\ UNCHANGED memoryStore
           ELSE IF request.accessType \notin validAccessTypes
           THEN Respond(r, Response(400)) /\ UNCHANGED memoryStore
           ELSE IF ~MapHas(memoryStore.macAddresses, normalizedMac)
           THEN Respond(r, Response(404)) /\ UNCHANGED memoryStore
           ELSE /\ memoryStore' = ms
                /\ saveToStorage(r, ms,
                       [Pending(200, normalizedMac) EXCEPT
                           !.accessType = entry.accessType])

handleUpdateAccess(r, request) ==
    /\ Dispatch(r, request, "update-access")
    /\ LET normalizedMac == toLowerCase(request.macAddress)
           entry == [MapGet(memoryStore.macAddresses, normalizedMac) EXCEPT
                        !.accessType = request.accessType, !.updatedAt = now]
           ms == [memoryStore EXCEPT !.macAddresses = MapSet(@, normalizedMac, entry)]
       IN  IF ~validateAdminKey(request.adminKey)
           THEN Respond(r, Response(403)) /\ UNCHANGED memoryStore
           ELSE IF request.macAddress = Missing \/ request.accessType = Missing
           THEN Respond(r, Response(400)) /\ UNCHANGED memoryStore
           ELSE IF request.accessType \notin validAccessTypes
           THEN Respond(r, Response(400)) /\ UNCHANGED memoryStore
           ELSE IF ~MapHas(memoryStore.macAddresses, normalizedMac)
           THEN Respond(r, Response(404)) /\ UNCHANGED memoryStore
           ELSE /\ memoryStore' = ms
                /\ saveToStorage(r, ms,
                       [Pending(200, normalizedMac) EXCEPT
                           !.accessType = entry.accessType])

handleRemoveMAC(r, request) ==
    /\ Dispatch(r, request, "remove-mac")
    /\ LET normalizedMac == toLowerCase(request.macAddress)
           ms == [memoryStore EXCEPT !.macAddresses = MapDelete(@, normalizedMac)]
       IN  IF ~validateAdminKey(request.adminKey)
           THEN Respond(r, Response(403)) /\ UNCHANGED memoryStore
           ELSE IF request.macAddress = Missing
           THEN Respond(r, Response(400)) /\ UNCHANGED memoryStore
           ELSE IF ~MapHas(memoryStore.macAddresses, normalizedMac)
           THEN Respond(r, Response(404)) /\ UNCHANGED memoryStore
           ELSE /\ memoryStore' = ms
                /\ saveToStorage(r, ms, Pending(200, normalizedMac))

handleListMACs(r, request) ==
    /\ Dispatch(r, request, "list-macs")
    /\ IF ~validateAdminKey(request.adminKey)
       THEN Respond(r, Response(403)) /\ UNCHANGED memoryStore
       ELSE /\ memoryStore' = updateStatistics(memoryStore, now)
            /\ Respond(r, Response(200))

handleBulkAdd(r, request) ==
    /\ Dispatch(r, request, "bulk-add")
    /\ LET loop == BulkLoop(memoryStore.macAddresses, request.items, 0, now)
           ms == [memoryStore EXCEPT !.macAddresses = loop.map]
       IN  IF ~validateAdminKey(request.adminKey)
           THEN Respond(r, Response(403)) /\ UNCHANGED memoryStore
           ELSE IF ~request.isArray
           THEN Respond(r, Response(400)) /\ UNCHANGED memoryStore
           ELSE IF loop.threw
           THEN /\ memoryStore' = ms
                /\ Respond(r, Response(500))
           ELSE IF loop.addedCount > 0
           THEN /\ memoryStore' = ms
                /\ saveToStorage(r, ms,
                       [Pending(200, Missing) EXCEPT !.results = loop.results,
                                                     !.totalAdded = loop.addedCount])
           ELSE /\ UNCHANGED memoryStore
                /\ Respond(r, [Response(200) EXCEPT !.persistent = "false",
                                                    !.results = loop.results])

\* the requests whose query.action is `action`
RequestsFor(action) == {q \in Requests : q.method = "POST" /\ q.action = action}

\* the switch of handler: the task that holds the event loop after
\* initializeStorage dispatches its request
Handle(r, H(_, _), requests) ==
    /\ running = r
    /\ \E request \in requests : H(r, request)
    /\ UNCHANGED req

\* the same, the run keeping the request the task was dispatched with
HandleKept(r, H(_, _), requests) ==
    /\ running = r
    /\ \E request \in requests : H(r, request) /\ req' = [req EXCEPT ![r] = request]

Next ==
    \/ Tick
    \/ \E r \in Tasks :
        \/ handler(r)
        \/ loadFromStorage(r)
        \/ saveToStorageMkdir(r)
        \/ saveToStorageWrite(r)
        \/ Handle(r, handleOptions, {q \in Requests : q.method = "OPTIONS"})
        \/ Handle(r, handleInvalidAction, RequestsFor("no-such-action"))
        \/ Handle(r, handleHealthCheck, RequestsFor("health"))
        \/ Handle(r, handleCheckAccess, RequestsFor("check-access"))
        \/ Handle(r, handleAddMAC, RequestsFor("add-mac"))
        \/ Handle(r, handleUpdateAccess, RequestsFor("update-access"))
        \/ Handle(r, handleRemoveMAC, RequestsFor("remove-mac"))
        \/ Handle(r, handleListMACs, RequestsFor("list-macs"))
        \/ Handle(r, handleBulkAdd, RequestsFor("bulk-add"))

Spec == Init /\ [][Next]_vars

\* ---------------------------------------------------------------------
\* The load procedure over every combination of contents of the three
\* locations: the requests are health checks, which read the store only.
InitLoad ==
    /\ memoryStore = [macAddresses |-> <<>>, statistics |-> ZeroStatistics,
                      lastLoaded |-> Never, initialized |-> FALSE]
    /\ MEMORY_BACKUP = [id |-> 0]
    /\ disk \in [LocationNames -> InitialFiles]
    /\ fs = [mkdir |-> TRUE, writable |-> LocationNames]
    /\ now = 1
    /\ running = 0
    /\ pc = [r \in Tasks |-> "idle"]
    /\ load = [r \in Tasks |-> NoLoad]
    /\ save = [r \in Tasks |-> NoSave]
    /\ resp = [r \in Tasks |-> NoResponse]
    /\ req = [r \in Tasks |-> NoRequest]
    /\ arrived = 0
    /\ saveCount = 0
    /\ landed = [l \in LocationNames |-> 0]
    /\ OthersIdle

NextLoad ==
    \/ Tick
    \/ \E r \in Tasks :
        \/ handler(r)
        \/ loadFromStorage(r)
        \/ Handle(r, handleHealthCheck, RequestsFor("health"))

SpecLoad == InitLoad /\ [][NextLoad]_vars

\* ---------------------------------------------------------------------
\* The access evaluator, each task keeping its request next to its response,
\* over a file system that accepts every write.
InitAccess ==
    /\ memoryStore = [macAddresses |-> <<>>, statistics |-> ZeroStatistics,
                      lastLoaded |-> Never, initialized |-> FALSE]
    /\ MEMORY_BACKUP = [id |-> 0]
    /\ disk \in InitialDisks
    /\ fs = [mkdir |-> TRUE, writable |-> LocationNames]
    /\ now = 1
    /\ running = 0
    /\ pc = [r \in Tasks |-> "idle"]
    /\ load = [r \in Tasks |-> NoLoad]
    /\ save = [r \in Tasks |-> NoSave]
    /\ resp = [r \in Tasks |-> NoResponse]
    /\ req = [r \in Tasks |-> NoRequest]
    /\ arrived = 0
    /\ saveCount = 0
    /\ landed = [l \in LocationNames |-> 0]
    /\ OthersIdle

NextAccess ==
    \/ Tick
    \/ \E r \in Tasks :
        \/ handler(r)
        \/ loadFromStorage(r)
        \/ saveToStorageMkdir(r)
        \/ saveToStorageWrite(r)
        \/ HandleKept(r, handleCheckAccess, RequestsFor("check-access"))

SpecAccess == InitAccess /\ [][NextAccess]_vars

\* ---------------------------------------------------------------------
\* Every action of the handler, each task keeping its request next to its
\* response, in a recycled process: the three locations hold one used entry
\* and accept every write.
InitAdmin ==
    /\ memoryStore = [macAddresses |-> <<>>, statistics |-> ZeroStatistics,
                      lastLoaded |-> Never, initialized |-> FALSE]
    /\ MEMORY_BACKUP = [id |-> 0]
    /\ disk = [l \in LocationNames |-> SnapshotFile(<<Used("bb")>>, StatsOf(1, 1))]
    /\ fs = [mkdir |-> TRUE, writable |-> LocationNames]
    /\ now = 1
    /\ running = 0
    /\ pc = [r \in Tasks |-> "idle"]
    /\ load = [r \in Tasks |-> NoLoad]
    /\ save = [r \in Tasks |-> NoSave]
    /\ resp = [r \in Tasks |-> NoResponse]
    /\ req = [r \in Tasks |-> NoRequest]
    /\ arrived = 0
    /\ saveCount = 0
    /\ landed = [l \in LocationNames |-> 0]
    /\ OthersIdle

NextAdmin ==
    \/ Tick
    \/ \E r \in Tasks :
        \/ handler(r)
        \/ loadFromStorage(r)
        \/ saveToStorageMkdir(r)
        \/ saveToStorageWrite(r)
        \/ HandleKept(r, handleCheckAccess, RequestsFor("check-access"))
        \/ HandleKept(r, handleAddMAC, RequestsFor("add-mac"))
        \/ HandleKept(r, handleUpdateAccess, RequestsFor("update-access"))
        \/ HandleKept(r, handleRemoveMAC, RequestsFor("remove-mac"))
        \/ HandleKept(r, handleListMACs, RequestsFor("list-macs"))
        \/ HandleKept(r, handleBulkAdd, RequestsFor("bulk-add"))

SpecAdmin == InitAdmin /\ [][NextAdmin]_vars

\* ---------------------------------------------------------------------
\* list-macs on a warm process, over stores of every content: each address
\* absent or whitelisted with any use count, never seen or last seen now, a
\* day ago, just under a week ago or a week ago; the statistics object holds
\* what an earlier load or listing left in it.
LastSeenValues ==
    {Never} \cup {StatsNow - age : age \in {0, OneDay, OneWeek - 1, OneWeek}}

StatsEntries(k) ==
    {[Fresh(k) EXCEPT !.lastSeen = s, !.accessCount = c] :
        s \in LastSeenValues, c \in 0..2}

StatsStores ==
    {<<>>}
        \cup UNION {{<<[key |-> k, value |-> e]>> : e \in StatsEntries(k)} :
                       k \in {"aa", "bb"}}
        \cup {<<[key |-> "aa", value |-> a], [key |-> "bb", value |-> b]>> :
                 a \in StatsEntries("aa"), b \in StatsEntries("bb")}

StaleStatistics == {ZeroStatistics, StatsOf(3, 2)}

InitStats ==
    /\ memoryStore \in
           {[macAddresses |-> m, statistics |-> st, lastLoaded |-> 1,
             initialized |-> TRUE] : m \in StatsStores, st \in StaleStatistics}
    /\ MEMORY_BACKUP = [id |-> 0]
    /\ disk = [l \in LocationNames |-> NoFile]
    /\ fs = [mkdir |-> TRUE, writable |-> LocationNames]
    /\ now = StatsNow
    /\ running = 0
    /\ pc = [r \in Tasks |-> "idle"]
    /\ load = [r \in Tasks |-> NoLoad]
    /\ save = [r \in Tasks |-> NoSave]
    /\ resp = [r \in Tasks |-> NoResponse]
    /\ req = [r \in Tasks |-> NoRequest]
    /\ arrived = 0
    /\ saveCount = 0
    /\ landed = 0
    /\ OthersIdle

NextStats ==
    \E r \in Tasks :
        \/ handler(r)
        \/ HandleKept(r, handleListMACs, RequestsFor("list-macs"))

SpecStats == InitStats /\ [][NextStats]_vars

\* ---------------------------------------------------------------------
\* Every request runs to its end: a first run of the process on each file
\* system, all actions, with every awaited fs call returning and the event
\* loop running every continuation that is ready.
InitLive ==
    /\ memoryStore = [macAddresses |-> <<>>, statistics |-> ZeroStatistics,
                      lastLoaded |-> Never, initialized |-> FALSE]
    /\ MEMORY_BACKUP = [id |-> 0]
    /\ disk = [l \in LocationNames |-> NoFile]
    /\ fs \in FileSystems
    /\ now = 1
    /\ running = 0
    /\ pc = [r \in Tasks |-> "idle"]
    /\ load = [r \in Tasks |-> NoLoad]
    /\ save = [r \in Tasks |-> NoSave]
    /\ resp = [r \in Tasks |-> NoResponse]
    /\ req = [r \in Tasks |-> NoRequest]
    /\ arrived = 0
    /\ saveCount = 0
    /\ landed = [l \in LocationNames |-> 0]
    /\ OthersIdle

\* the requests of these runs: every action and every branch of its handler,
\* on the one address aa
LiveRequests ==
    {q \in Requests :
        /\ q.macAddress \in {"aa", Missing}
        /\ q.accessType \in {"admin", Missing}
        /\ q.deviceInfo = NoDevice
        /\ q.macAddresses \in {<<>>, <<"aa">>, <<NotAString>>}
        /\ q.items \in {<<>>, <<[macAddress |-> "aa", accessType |-> "admin"]>>,
                        <<NullItem>>}}

LiveRequestsFor(action) == RequestsFor(action) \cap LiveRequests

\* the switch of handler on query.action, for the task that holds the event loop
Switch(r) ==
    \/ Handle(r, handleOptions, {q \in LiveRequests : q.method = "OPTIONS"})
    \/ Handle(r, handleInvalidAction, LiveRequestsFor("no-such-action"))
    \/ Handle(r, handleHealthCheck, LiveRequestsFor("health"))
    \/ Handle(r, handleCheckAccess, LiveRequestsFor("check-access"))
    \/ Handle(r, handleAddMAC, LiveRequestsFor("add-mac"))
    \/ Handle(r, handleUpdateAccess, LiveRequestsFor("update-access"))
    \/ Handle(r, handleRemoveMAC, LiveRequestsFor("remove-mac"))
    \/ Handle(r, handleListMACs, LiveRequestsFor("list-macs"))
    \/ Handle(r, handleBulkAdd, LiveRequestsFor("bulk-add"))

NextLive ==
    \E r \in Tasks :
        \/ handler(r)
        \/ loadFromStorage(r)
        \/ saveToStorageMkdir(r)
        \/ saveToStorageWrite(r)
        \/ Switch(r)

\* each fs.readFile, fs.mkdir and fs.writeFile returns, and a handler that was
\* resumed runs to its next await
Fairness ==
    \A r \in Tasks :
        /\ WF_vars(loadFromStorage(r))
        /\ WF_vars(saveToStorageMkdir(r))
        /\ WF_vars(saveToStorageWrite(r))
        /\ WF_vars(Switch(r))

SpecLive == InitLive /\ [][NextLive]_vars /\ Fairness

\* ---------------------------------------------------------------------
\* Two instances of the handler on the same storage locations.  One is the
\* instance above, serving add-mac; the other has loaded the snapshot the
\* locations hold at the start, adds one address of its own and persists with
\* the same saveToStorage loop (its mkdir, which changes no file, is part of
\* its first write step).  Nothing coordinates the two.
PeerAddresses == {"aa", "cc"}

InitPeers ==
    /\ memoryStore = [macAddresses |-> <<>>, statistics |-> ZeroStatistics,
                      lastLoaded |-> Never, initialized |-> FALSE]
    /\ MEMORY_BACKUP = [id |-> 0]
    /\ disk = [l \in LocationNames |-> SnapshotFile(<<Used("bb")>>, StatsOf(1, 1))]
    /\ fs = [mkdir |-> TRUE, writable |-> LocationNames]
    /\ now = 1
    /\ running = 0
    /\ pc = [r \in Tasks |-> "idle"]
    /\ load = [r \in Tasks |-> NoLoad]
    /\ save = [r \in Tasks |-> NoSave]
    /\ resp = [r \in Tasks |-> NoResponse]
    /\ req = [r \in Tasks |-> NoRequest]
    /\ arrived = 0
    /\ saveCount = 0
    /\ landed = [l \in LocationNames |-> 0]
    /\ LET loaded == LoadFrom(memoryStore, disk[Locations[1]], now).ms
       IN  peer = [NoPeer EXCEPT !.macAddresses = loaded.macAddresses,
                                 !.statistics = loaded.statistics]
    /\ DatabaseIdle
    /\ AuthIdle
    /\ RateIdle
    /\ recycled = NoRecycle

\* handleAddMAC of the second instance up to the serialization in saveToStorage
peerAddMAC(macAddress) ==
    /\ peer.added = Missing
    /\ ~MapHas(peer.macAddresses, toLowerCase(macAddress))
    /\ LET normalizedMac == toLowerCase(macAddress)
           m == MapSet(peer.macAddresses, normalizedMac,
                       NewEntry(normalizedMac, "trial", now))
       IN  peer' = [peer EXCEPT !.macAddresses = m,
                                !.data = Snapshot([macAddresses |-> m,
                                                   statistics |-> peer.statistics], now),
                                !.target = 1,
                                !.added = normalizedMac]
    /\ UNCHANGED <<memoryStore, MEMORY_BACKUP, disk, fs, now, running, pc, load,
                   save, resp, req, arrived, saveCount, landed, variants, recycled>>

\* a writeFile of the second instance completes
peerWrite ==
    /\ peer.target \in 1..Len(Locations)
    /\ LET l == Locations[peer.target]
       IN  /\ disk' = [disk EXCEPT ![l] = WriteFile(@, Stringify(peer.data))]
           /\ landed' = [landed EXCEPT ![l] = 0]
    /\ peer' = [peer EXCEPT !.target = IF @ < Len(Locations) THEN @ + 1 ELSE 0]
    /\ UNCHANGED <<memoryStore, MEMORY_BACKUP, fs, now, running, pc, load, save,
                   resp, req, arrived, saveCount, variants, recycled>>

NextPeers ==
    \/ \E r \in Tasks :
        \/ handler(r)
        \/ loadFromStorage(r)
        \/ saveToStorageMkdir(r)
        \/ saveToStorageWrite(r)
        \/ HandleKept(r, handleAddMAC,
                      {q \in RequestsFor("add-mac") :
                          q.adminKey = ADMIN_SECRET_KEY /\ q.macAddress = "aa"})
    \/ \E a \in PeerAddresses : peerAddMAC(a)
    \/ peerWrite

SpecPeers == InitPeers /\ [][NextPeers]_vars

\* ---------------------------------------------------------------------
\* MACDatabase: the class behind the earlier handler.  Every method reads
\* mac-whitelist.json, changes the parsed object and writes the file back;
\* nothing is kept in memory between calls.  The constructor starts
\* initializeDatabase and returns without waiting for it.  logAccess, which
\* touches only access-log.json, is left out of the method calls and is
\* modelled as a call of its own (SpecLog).
\* ---------------------------------------------------------------------
\* the entry object of addMACAddress (description and id are left out)
DbEntry(accessType, t) ==
    [accessType |-> accessType, addedAt |-> t, lastSeen |-> Never,
     accessCount |-> 0, lastDevice |-> NoDevice]

\* an entry that was checked once at time t
DbUsed(accessType, t) ==
    [DbEntry(accessType, 1) EXCEPT !.lastSeen = t, !.accessCount = 1,
                                   !.lastDevice = "d1"]

\* the object initializeDatabase writes and readDatabase returns on an error
initialData ==
    [exists |-> TRUE, macAddresses |-> <<>>,
     statistics |-> [totalDevices |-> 0, totalAccesses |-> 0]]

\* readDatabase: the parsed file, the default when the file cannot be read
readDatabase(file) == IF file.exists THEN file ELSE initialData

\* writeDatabase, up to its writeFile: the statistics are stamped
Stamped(data) ==
    [data EXCEPT !.statistics.totalDevices = Len(data.macAddresses)]

\* the loop of checkAccess: the first candidate the whitelist holds, 0 if none
RECURSIVE FirstListed(_, _, _)
FirstListed(data, macAddresses, i) ==
    IF i > Len(macAddresses) THEN 0
    ELSE IF MapHas(data.macAddresses, toLowerCase(macAddresses[i])) THEN i
    ELSE FirstListed(data, macAddresses, i + 1)

\* the rows of listMACAddresses: Object.entries in property order
macList(data) ==
    [i \in 1..Len(data.macAddresses) |->
        [macAddress |-> data.macAddresses[i].key,
         accessType |-> data.macAddresses[i].value.accessType,
         addedAt |-> data.macAddresses[i].value.addedAt,
         lastSeen |-> data.macAddresses[i].value.lastSeen,
         accessCount |-> data.macAddresses[i].value.accessCount,
         lastDevice |-> data.macAddresses[i].value.lastDevice]]

\* the statistics of listMACAddresses
ListStatistics(data, t) ==
    LET rows == macList(data)
        count(P(_)) == Cardinality({i \in 1..Len(rows) : P(rows[i])})
        lastDay(e) == e.lastSeen # Never /\ t - e.lastSeen <= OneDay
        lastWeek(e) == e.lastSeen # Never /\ t - e.lastSeen <= OneWeek
        never(e) == e.lastSeen = Never
    IN  [total |-> Len(rows),
         activeLast24h |-> count(lastDay),
         activeLast7d |-> count(lastWeek),
         neverUsed |-> count(never),
         totalAccesses |-> data.statistics.totalAccesses]

\* a method returns
Returned(call, success) ==
    [call EXCEPT !.pc = "done", !.result.success = success,
                 !.result.returned = TRUE]

\* a method goes on to writeDatabase with the object it changed
Writing(call, data) == [call EXCEPT !.pc = "write", !.data = Stamped(data)]

\* checkAccess from the return of readDatabase to its next await
checkAccessRead(call, data, t) ==
    LET i == FirstListed(data, call.macAddresses, 1)
        normalizedMac == toLowerCase(call.macAddresses[i])
        entry == MapGet(data.macAddresses, normalizedMac)
        seen == [entry EXCEPT !.lastSeen = t, !.accessCount = @ + 1,
                              !.lastDevice = call.deviceInfo]
    IN  IF i = 0 THEN Returned(call, FALSE)
        ELSE Writing(call,
                [data EXCEPT !.macAddresses = MapSet(@, normalizedMac, seen),
                             !.statistics.totalAccesses = @ + 1])

\* addMACAddress from the return of readDatabase to its next await
addMACAddressRead(call, data, t) ==
    LET normalizedMac == toLowerCase(call.macAddress)
    IN  IF MapHas(data.macAddresses, normalizedMac) THEN Returned(call, FALSE)
        ELSE Writing(call,
                [data EXCEPT !.macAddresses =
                    MapSet(@, normalizedMac, DbEntry(call.accessType, t))])

\* updateMACAccess from the return of readDatabase to its next await
updateMACAccessRead(call, data, t) ==
    LET normalizedMac == toLowerCase(call.macAddress)
        entry == MapGet(data.macAddresses, normalizedMac)
    IN  IF ~MapHas(data.macAddresses, normalizedMac) THEN Returned(call, FALSE)
        ELSE Writing(call,
                [data EXCEPT !.macAddresses =
                    MapSet(@, normalizedMac,
                           [entry EXCEPT !.accessType = call.accessType])])

\* removeMACAddress from the return of readDatabase to its next await
removeMACAddressRead(call, data, t) ==
    LET normalizedMac == toLowerCase(call.macAddress)
    IN  IF ~MapHas(data.macAddresses, normalizedMac) THEN Returned(call, FALSE)
        ELSE Writing(call,
                [data EXCEPT !.macAddresses = MapDelete(@, normalizedMac)])

\* listMACAddresses from the return of readDatabase to its return
listMACAddressesRead(call, data, t) ==
    [Returned(call, TRUE) EXCEPT !.data = data,
                                 !.result.macAddresses = macList(data),
                                 !.result.statistics = ListStatistics(data, t)]

\* the files the service may find when the process starts
InitialDatabases ==
    { NoDatabase,
      [exists |-> TRUE,
       macAddresses |-> <<[key |-> "bb", value |-> DbUsed("trial", 1)]>>,
       statistics |-> [totalDevices |-> 1, totalAccesses |-> 1]] }

\* the enhanced handler is not in use
EnhancedIdle ==
    /\ memoryStore = [macAddresses |-> <<>>, statistics |-> ZeroStatistics,
                      lastLoaded |-> Never, initialized |-> FALSE]
    /\ MEMORY_BACKUP = [id |-> 0]
    /\ disk = [l \in LocationNames |-> NoFile]
    /\ fs = [mkdir |-> TRUE, writable |-> LocationNames]
    /\ running = 0
    /\ pc = [r \in Tasks |-> "idle"]
    /\ load = [r \in Tasks |-> NoLoad]
    /\ save = [r \in Tasks |-> NoSave]
    /\ resp = [r \in Tasks |-> NoResponse]
    /\ req = [r \in Tasks |-> NoRequest]
    /\ arrived = 0
    /\ saveCount = 0
    /\ landed = [l \in LocationNames |-> 0]
    /\ peer = NoPeer
    /\ recycled = NoRecycle

\* `new MACDatabase()` has run: initializeDatabase is at its first await
InitDB ==
    /\ EnhancedIdle
    /\ now = 1
    /\ macFile \in InitialDatabases
    /\ logFile = [NoLog EXCEPT !.exists = macFile.exists]
    /\ dbFs \in { f \in [mkdir : BOOLEAN, writable : BOOLEAN] :
                    f.writable => f.mkdir }
    /\ dbInit = [pc |-> "mkdir"]
    /\ dbCall = [r \in Tasks |-> NoCall]
    /\ dbCalls = 0
    /\ AuthIdle
    /\ RateIdle

\* initializeDatabase: fs.mkdir returns; a failure is rethrown by the catch
\* of line 468 and rejects the promise the constructor dropped
initializeDatabaseMkdir ==
    /\ dbInit.pc = "mkdir"
    /\ dbInit' = [pc |-> IF dbFs.mkdir THEN "access" ELSE "rejected"]
    /\ UNCHANGED <<enhanced, now, peer, authVars, rateVars, macFile, logFile, dbFs, dbCall, dbCalls>>

\* initializeDatabase: fs.access of the whitelist file returns
initializeDatabaseAccess ==
    /\ dbInit.pc = "access"
    /\ dbInit' = [pc |-> IF macFile.exists THEN "accessLog" ELSE "writeFile"]
    /\ UNCHANGED <<enhanced, now, peer, authVars, rateVars, macFile, logFile, dbFs, dbCall, dbCalls>>

\* initializeDatabase: the writeFile of the initial whitelist returns
initializeDatabaseWriteFile ==
    /\ dbInit.pc = "writeFile"
    /\ IF dbFs.writable
       THEN macFile' = initialData /\ dbInit' = [pc |-> "accessLog"]
       ELSE UNCHANGED macFile /\ dbInit' = [pc |-> "rejected"]
    /\ UNCHANGED <<enhanced, now, peer, authVars, rateVars, logFile, dbFs, dbCall, dbCalls>>

\* initializeDatabase: fs.access of the log file returns
initializeDatabaseAccessLog ==
    /\ dbInit.pc = "accessLog"
    /\ dbInit' = [pc |-> IF logFile.exists THEN "done" ELSE "writeLog"]
    /\ UNCHANGED <<enhanced, now, peer, authVars, rateVars, macFile, logFile, dbFs, dbCall, dbCalls>>

\* initializeDatabase: the writeFile of the initial log returns
initializeDatabaseWriteLog ==
    /\ dbInit.pc = "writeLog"
    /\ IF dbFs.writable
       THEN logFile' = [exists |-> TRUE, accessEvents |-> <<>>]
            /\ dbInit' = [pc |-> "done"]
       ELSE UNCHANGED logFile /\ dbInit' = [pc |-> "rejected"]
    /\ UNCHANGED <<enhanced, now, peer, authVars, rateVars, macFile, dbFs, dbCall, dbCalls>>

\* a method is called and waits for readDatabase
Call(r, op, macAddresses, macAddress, accessType, deviceInfo) ==
    /\ dbCall[r].pc \in {"idle", "done"}
    /\ dbCalls < MaxCalls
    /\ dbCalls' = dbCalls + 1
    /\ dbCall' = [dbCall EXCEPT ![r] =
            [NoCall EXCEPT !.pc = "read", !.op = op,
                           !.macAddresses = macAddresses,
                           !.macAddress = macAddress,
                           !.accessType = accessType,
                           !.deviceInfo = deviceInfo]]
    /\ UNCHANGED <<enhanced, now, peer, authVars, rateVars, macFile, logFile, dbFs, dbInit>>

checkAccess(r) ==
    \E a \in RawAddresses, d \in Devices :
        Call(r, "checkAccess", <<a>>, Missing, Missing, d)

addMACAddress(r) ==
    \E a \in RawAddresses, t \in {"trial", "admin"} :
        Call(r, "addMACAddress", <<>>, a, t, NoDevice)

updateMACAccess(r) ==
    \E a \in RawAddresses :
        Call(r, "updateMACAccess", <<>>, a, "unlimited", NoDevice)

removeMACAddress(r) ==
    \E a \in RawAddresses :
        Call(r, "removeMACAddress", <<>>, a, Missing, NoDevice)

listMACAddresses(r) ==
    Call(r, "listMACAddresses", <<>>, Missing, Missing, NoDevice)

\* the readFile of readDatabase returns and the method runs to its next await
readDatabaseReturns(r) ==
    /\ dbCall[r].pc = "read"
    /\ LET call == dbCall[r]
           data == readDatabase(macFile)
       IN  dbCall' = [dbCall EXCEPT ![r] =
            CASE call.op = "checkAccess" -> checkAccessRead(call, data, now)
              [] call.op = "addMACAddress" -> addMACAddressRead(call, data, now)
              [] call.op = "updateMACAccess" -> updateMACAccessRead(call, data, now)
              [] call.op = "removeMACAddress" -> removeMACAddressRead(call, data, now)
              [] OTHER -> listMACAddressesRead(call, data, now)]
    /\ UNCHANGED <<enhanced, now, peer, authVars, rateVars, macFile, logFile, dbFs, dbInit, dbCalls>>

\* the writeFile of writeDatabase returns and the method returns; checkAccess
\* does not look at what writeDatabase returned
writeDatabaseReturns(r) ==
    /\ dbCall[r].pc = "write"
    /\ macFile' = IF dbFs.writable THEN dbCall[r].data ELSE macFile
    /\ dbCall' = [dbCall EXCEPT ![r] =
            Returned(@, dbFs.writable \/ @.op = "checkAccess")]
    /\ UNCHANGED <<enhanced, now, peer, authVars, rateVars, logFile, dbFs, dbInit, dbCalls>>

\* the wall clock moves between method calls
DbTick ==
    /\ now < MaxTime
    /\ \A r \in Tasks : dbCall[r].pc \in {"idle", "done"}
    /\ now' = now + 1
    /\ UNCHANGED <<enhanced, others>>

NextDB ==
    \/ initializeDatabaseMkdir
    \/ initializeDatabaseAccess
    \/ initializeDatabaseWriteFile
    \/ initializeDatabaseAccessLog
    \/ initializeDatabaseWriteLog
    \/ DbTick
    \/ \E r \in Tasks :
        \/ checkAccess(r)
        \/ addMACAddress(r)
        \/ updateMACAccess(r)
        \/ removeMACAddress(r)
        \/ listMACAddresses(r)
        \/ readDatabaseReturns(r)
        \/ writeDatabaseReturns(r)

SpecDB == InitDB /\ [][NextDB]_vars

\* ---------------------------------------------------------------------
\* MACDatabase.logAccess: read access-log.json, push one event, keep the
\* last LogLimit events, write the file back.  checkAccess awaits it as its
\* last step, so the calls of overlapping requests overlap; the constructor's
\* initializeDatabase may still be running when the first call arrives.
\* ---------------------------------------------------------------------
LogLimit == 500

\* the object logAccess starts from when the log cannot be read or parsed
initialLog == [exists |-> TRUE, accessEvents |-> <<>>]

\* the readFile and JSON.parse of logAccess
readLog(file) == IF file.exists THEN file ELSE initialLog

\* the event of one call (deviceInfo, success and message are carried along
\* and left out); id stands for crypto.randomUUID()
logEntry(macAddress, t, id) ==
    [timestamp |-> t, macAddress |-> macAddress, id |-> id]

\* Array.prototype.slice(-n)
slice(events, n) ==
    IF Len(events) <= n THEN events
    ELSE SubSeq(events, Len(events) - n + 1, Len(events))

\* push and truncation of logAccess
pushed(logData, entry) ==
    LET accessEvents == Append(logData.accessEvents, entry)
    IN  [logData EXCEPT !.accessEvents =
            IF Len(accessEvents) > LogLimit
            THEN slice(accessEvents, LogLimit) ELSE accessEvents]

\* a log of n events written before the process started
OldLog(n) ==
    [exists |-> TRUE,
     accessEvents |-> [i \in 1..n |-> logEntry("bb", Never, i)]]

\* the log files the service may find when the process starts
InitialLogs == {NoLog, OldLog(0), OldLog(LogLimit - 1), OldLog(LogLimit)}

\* `new MACDatabase()` has run: initializeDatabase is at its first await
InitLog ==
    /\ EnhancedIdle
    /\ now = 1
    /\ macFile \in InitialDatabases
    /\ logFile \in InitialLogs
    /\ dbFs \in { f \in [mkdir : BOOLEAN, writable : BOOLEAN] :
                    f.writable => f.mkdir }
    /\ dbInit = [pc |-> "mkdir"]
    /\ dbCall = [r \in Tasks |-> NoCall]
    /\ dbCalls = 0
    /\ AuthIdle
    /\ RateIdle

\* logAccess is called and waits for its readFile
logAccess(r) ==
    \E a \in {"aa", "bb"} :
        /\ dbCall[r].pc \in {"idle", "done"}
        /\ dbCalls < MaxCalls
        /\ dbCalls' = dbCalls + 1
        /\ dbCall' = [dbCall EXCEPT ![r] =
                [NoCall EXCEPT !.pc = "readLog", !.op = "logAccess",
                               !.macAddress = a]]
        /\ UNCHANGED <<enhanced, now, peer, authVars, rateVars, macFile, logFile,
                       dbFs, dbInit>>

\* the readFile of logAccess returns: the event is pushed, the list is
\* truncated, and the call waits for its writeFile
logAccessReadReturns(r) ==
    /\ dbCall[r].pc = "readLog"
    /\ dbCall' = [dbCall EXCEPT ![r] =
            [@ EXCEPT !.pc = "writeLog",
                      !.logData = pushed(readLog(logFile),
                                         logEntry(dbCall[r].macAddress, now,
                                                  LogLimit + dbCalls))]]
    /\ UNCHANGED <<enhanced, now, peer, authVars, rateVars, macFile, logFile,
                   dbFs, dbInit, dbCalls>>

\* the writeFile of logAccess returns; a rejection is caught and logged
logAccessWriteReturns(r) ==
    /\ dbCall[r].pc = "writeLog"
    /\ logFile' = IF dbFs.writable THEN dbCall[r].logData ELSE logFile
    /\ dbCall' = [dbCall EXCEPT ![r] = Returned(@, dbFs.writable)]
    /\ UNCHANGED <<enhanced, now, peer, authVars, rateVars, macFile, dbFs,
                   dbInit, dbCalls>>

NextLog ==
    \/ initializeDatabaseMkdir
    \/ initializeDatabaseAccess
    \/ initializeDatabaseWriteFile
    \/ initializeDatabaseAccessLog
    \/ initializeDatabaseWriteLog
    \/ DbTick
    \/ \E r \in Tasks :
        \/ logAccess(r)
        \/ logAccessReadReturns(r)
        \/ logAccessWriteReturns(r)

SpecLog == InitLog /\ [][NextLog]_vars

\* ---------------------------------------------------------------------
\* The rate limiter of the earlier handler: one counter and one reset time
\* per client identifier, kept in memory.  checkRateLimit has no await: a call
\* is one step.  The clock counts half hours.
\* ---------------------------------------------------------------------
RATE_LIMIT == 60
RATE_LIMIT_WINDOW == 2
MaxRateTime == 4

\* checkRateLimit with `>` for `>=` in the test of the counter
checkRateLimit_AllowsOneMore(store, identifier, t) ==
    LET entry == MapGet(store, identifier)
    IN  IF ~MapHas(store, identifier)
        THEN [store |-> MapSet(store, identifier,
                               [count |-> 1, resetTime |-> t + RATE_LIMIT_WINDOW]),
              allowed |-> TRUE]
        ELSE IF t > entry.resetTime
        THEN [store |-> MapSet(store, identifier,
                               [count |-> 1, resetTime |-> t + RATE_LIMIT_WINDOW]),
              allowed |-> TRUE]
        ELSE IF entry.count > RATE_LIMIT
        THEN [store |-> store, allowed |-> FALSE]
        ELSE [store |-> MapSet(store, identifier,
                               [entry EXCEPT !.count = @ + 1]),
              allowed |-> TRUE]

\* checkRateLimit: the store after the call and what the call returns
checkRateLimit(store, identifier, t) ==
    LET entry == MapGet(store, identifier)
    IN  IF ~MapHas(store, identifier)
        THEN [store |-> MapSet(store, identifier,
                               [count |-> 1, resetTime |-> t + RATE_LIMIT_WINDOW]),
              allowed |-> TRUE]
        ELSE IF t > entry.resetTime
        THEN [store |-> MapSet(store, identifier,
                               [count |-> 1, resetTime |-> t + RATE_LIMIT_WINDOW]),
              allowed |-> TRUE]
        ELSE IF entry.count >= RATE_LIMIT
        THEN [store |-> store, allowed |-> FALSE]
        ELSE [store |-> MapSet(store, identifier,
                               [entry EXCEPT !.count = @ + 1]),
              allowed |-> TRUE]

\* the identifier of a request: the forwarded-for header, else the remote
\* address of the connection, else 'unknown'
clientIP(forwarded, remoteAddress) ==
    IF forwarded # Missing THEN forwarded
    ELSE IF remoteAddress # Missing THEN remoteAddress
    ELSE "unknown"

\* the process has started and no request has arrived
InitRate ==
    /\ EnhancedIdle
    /\ DatabaseIdle
    /\ AuthIdle
    /\ now = 1
    /\ rateLimitStore = <<>>
    /\ rateCall = NoRateCall

\* the earlier handler up to its switch: OPTIONS is answered before the
\* limiter is asked; a rejected request is answered 429; an allowed one is
\* handed to its action (status 0 here)
rateHandler(method, forwarded, remoteAddress) ==
    LET identifier == clientIP(forwarded, remoteAddress)
        call == checkRateLimit(rateLimitStore, identifier, now)
    IN  /\ IF method = "OPTIONS"
           THEN /\ rateCall' = [identifier |-> identifier, method |-> method,
                                allowed |-> FALSE, status |-> 200]
                /\ UNCHANGED rateLimitStore
           ELSE /\ rateLimitStore' = call.store
                /\ rateCall' = [identifier |-> identifier, method |-> method,
                                allowed |-> call.allowed,
                                status |-> IF call.allowed THEN 0 ELSE 429]
        /\ UNCHANGED <<enhanced, now, peer, dbVars, authVars>>

\* the wall clock moves between requests
RateTick ==
    /\ now < MaxRateTime
    /\ now' = now + 1
    /\ UNCHANGED <<enhanced, others>>

NextRate ==
    \/ RateTick
    \/ \E method \in {"POST", "OPTIONS"}, forwarded \in {"ip1", Missing} :
           rateHandler(method, forwarded, "ip2")

SpecRate == InitRate /\ [][NextRate]_vars


\* ---------------------------------------------------------------------
\* api/mac-auth.js: the handler with a main data file and a backup file.
\* The handler awaits loadMACWhitelist at the start of every request (line
\* 153) and every mutating action awaits saveMACWhitelist before it
\* answers.  ensureDataDirectory swallows its error and changes nothing the
\* model keeps, so its await is folded into the step that follows it.
\* ---------------------------------------------------------------------
\* fs.readFile + JSON.parse succeed on the file
Parses(file) == file.kind \in {"object", "null"}

\* lines 64-69: the Map after clear() and the forEach over data.macAddresses;
\* a null data or a null element throws and the catch of line 78 clears
RECURSIVE SetEach(_, _)
SetEach(m, entries) ==
    IF entries = <<>> THEN m
    ELSE SetEach(MapSet(m, Head(entries).macAddress, Head(entries)), Tail(entries))

Throws(file) ==
    \/ file.kind = "null"
    \/ file.hasArray /\ \E i \in 1..Len(file.macAddresses) :
                            file.macAddresses[i] = NullItem

Whitelisted(file) ==
    IF Throws(file) \/ ~file.hasArray THEN <<>>
    ELSE SetEach(<<>>, file.macAddresses)

\* lines 72-74: the statistics after the load
Merged(stats, file) ==
    IF ~Throws(file) /\ file.hasStatistics THEN file.statistics ELSE stats

\* lines 87-94: the string saveMACWhitelist writes to both files
jsonData(m, stats, t) ==
    Stringify([macAddresses |-> MapValues(m), statistics |-> stats,
               lastUpdated |-> t, version |-> "1.0"])

\* updateStatistics of api/mac-auth.js
AuthStatistics(m, t) ==
    updateStatistics([macAddresses |-> m, statistics |-> ZeroStatistics], t).statistics

\* the handler answers without a save
Answered(request, m, stats, status) ==
    [store |-> m, stats |-> stats,
     request |-> [request EXCEPT !.pc = "done", !.seen = m, !.status = status]]

\* the handler awaits saveMACWhitelist and will answer with `status`
Saving(request, seen, m, stats, status, t) ==
    [store |-> m, stats |-> stats,
     request |-> [request EXCEPT !.pc = "writeMain", !.seen = seen,
                                 !.jsonData = jsonData(m, stats, t),
                                 !.pending = status]]

\* lines 155-194 and the action handlers, from the return of loadMACWhitelist
\* to the next await or to the response
Route(request, m, stats, t) ==
    LET normalizedMac == toLowerCase(request.macAddress)
        i == FirstListed([macAddresses |-> m], request.macAddresses, 1)
        authorized == toLowerCase(request.macAddresses[i])
        authorizedEntry == MapGet(m, authorized)
        entry == MapGet(m, normalizedMac)
        bulk == BulkLoop(m, request.items, 0, t)
    IN  IF request.method = "OPTIONS" THEN Answered(request, m, stats, 200)
        ELSE CASE request.action = "check-access" ->
                  IF request.macAddresses = <<>> THEN Answered(request, m, stats, 400)
                  ELSE IF i = 0 THEN Answered(request, m, stats, 403)
                  ELSE Saving(request, m,
                         MapSet(m, authorized,
                            [authorizedEntry EXCEPT
                                !.lastSeen = t, !.accessCount = @ + 1,
                                !.lastDevice = IF request.deviceInfo # NoDevice
                                               THEN request.deviceInfo ELSE @]),
                         stats, 200, t)
               [] request.action = "add-mac" ->
                  IF ~validateAdminKey(request.adminKey)
                  THEN Answered(request, m, stats, 403)
                  ELSE IF request.macAddress = Missing
                  THEN Answered(request, m, stats, 400)
                  ELSE IF MapHas(m, normalizedMac)
                  THEN Answered(request, m, stats, 409)
                  ELSE Saving(request, m,
                         MapSet(m, normalizedMac,
                            NewEntry(normalizedMac,
                                     finalAccessType(request.accessType), t)),
                         stats, 201, t)
               [] request.action = "update-access" ->
                  IF ~validateAdminKey(request.adminKey)
                  THEN Answered(request, m, stats, 403)
                  ELSE IF request.macAddress = Missing \/ request.accessType = Missing
                  THEN Answered(request, m, stats, 400)
                  ELSE IF request.accessType \notin validAccessTypes
                  THEN Answered(request, m, stats, 400)
                  ELSE IF ~MapHas(m, normalizedMac)
                  THEN Answered(request, m, stats, 404)
                  ELSE Saving(request, m,
                         MapSet(m, normalizedMac,
                            [entry EXCEPT !.accessType = request.accessType,
                                          !.updatedAt = t]),
                         stats, 200, t)
               [] request.action = "remove-mac" ->
                  IF ~validateAdminKey(request.adminKey)
                  THEN Answered(request, m, stats, 403)
                  ELSE IF request.macAddress = Missing
                  THEN Answered(request, m, stats, 400)
                  ELSE IF ~MapHas(m, normalizedMac)
                  THEN Answered(request, m, stats, 404)
                  ELSE Saving(request, m, MapDelete(m, normalizedMac), stats, 200, t)
               [] request.action = "list-macs" ->
                  IF ~validateAdminKey(request.adminKey)
                  THEN Answered(request, m, stats, 403)
                  ELSE Answered(request, m, AuthStatistics(m, t), 200)
               [] request.action = "bulk-add" ->
                  IF ~validateAdminKey(request.adminKey)
                  THEN Answered(request, m, stats, 403)
                  ELSE IF bulk.threw
                  THEN [Answered(request, bulk.map, stats, 500)
                            EXCEPT !.request.seen = m]
                  ELSE IF bulk.addedCount > 0
                  THEN Saving(request, m, bulk.map, stats, 200, t)
                  ELSE Answered(request, m, stats, 200)
               [] OTHER -> Answered(request, m, stats, 400)

\* the requests a client may send to api/mac-auth.js
AuthRequests ==
    {[NoAuthRequest EXCEPT !.action = "check-access", !.macAddresses = c,
                           !.deviceInfo = d] :
        c \in {<<>>, <<"aa">>, <<"cc", "BB">>}, d \in {NoDevice, "d1"}}
    \cup {[NoAuthRequest EXCEPT !.action = a, !.macAddress = m, !.accessType = t,
                                !.adminKey = ADMIN_SECRET_KEY] :
        a \in {"add-mac", "update-access", "remove-mac"},
        m \in {"aa", "BB", Missing}, t \in {"admin", "bogus"}}
    \cup {[NoAuthRequest EXCEPT !.action = "update-access", !.macAddress = "BB",
                                !.adminKey = ADMIN_SECRET_KEY]}
    \cup {[NoAuthRequest EXCEPT !.action = a, !.macAddress = "aa",
                                !.accessType = "admin", !.adminKey = "wrong-key"] :
        a \in {"add-mac", "update-access", "remove-mac", "list-macs", "bulk-add"}}
    \cup {[NoAuthRequest EXCEPT !.action = "list-macs",
                                !.adminKey = ADMIN_SECRET_KEY]}
    \cup {[NoAuthRequest EXCEPT !.action = "bulk-add", !.items = b,
                                !.adminKey = ADMIN_SECRET_KEY] :
        b \in {<<>>, <<[macAddress |-> "aa", accessType |-> "admin"]>>,
               <<[macAddress |-> "cc", accessType |-> "bogus"], NullItem>>}}
    \cup {[NoAuthRequest EXCEPT !.action = "bogus"],
          [NoAuthRequest EXCEPT !.method = "OPTIONS"]}

\* what the two files hold when the process starts: nothing, or the snapshot
\* an earlier process of the service saved
AuthFiles == {NoFile, SnapshotFile(<<Used("bb")>>, StatsOf(1, 1))}

\* the module has been loaded; the main file may have been deployed read-only
InitAuth ==
    /\ EnhancedIdle
    /\ DatabaseIdle
    /\ RateIdle
    /\ now = 1
    /\ macWhitelist = <<>>
    /\ authStatistics = ZeroStatistics
    /\ DATA_FILE \in AuthFiles
    /\ BACKUP_FILE \in AuthFiles
    /\ authFs \in [main : BOOLEAN, backup : BOOLEAN]
    /\ authReq = [r \in Tasks |-> NoAuthRequest]
    /\ authArrived = 0

\* the handler runs from the return of loadMACWhitelist; `file` is the data
\* the load settled on
Loaded(r, file) ==
    LET routed == Route(authReq[r], Whitelisted(file),
                        Merged(authStatistics, file), now)
    IN  /\ macWhitelist' = routed.store
        /\ authStatistics' = routed.stats
        /\ authReq' = [authReq EXCEPT ![r] = routed.request]

\* a request arrives: the handler calls loadMACWhitelist, which awaits
\* fs.readFile of the main file
authHandler(r) ==
    /\ authReq[r].pc \in {"idle", "done"}
    /\ authArrived < MaxAuthRequests
    /\ authArrived' = authArrived + 1
    /\ \E request \in AuthRequests :
         authReq' = [authReq EXCEPT ![r] = [request EXCEPT !.pc = "readMain"]]
    /\ UNCHANGED <<enhanced, now, peer, dbVars, rateVars, macWhitelist, authStatistics,
                   DATA_FILE, BACKUP_FILE, authFs>>

\* loadMACWhitelist: fs.readFile of the main file returns (lines 39-42)
loadMACWhitelistMain(r) ==
    /\ authReq[r].pc = "readMain"
    /\ IF Parses(DATA_FILE)
       THEN Loaded(r, DATA_FILE)
       ELSE /\ authReq' = [authReq EXCEPT ![r].pc = "readBackup"]
            /\ UNCHANGED <<macWhitelist, authStatistics>>
    /\ UNCHANGED <<enhanced, now, peer, dbVars, rateVars, DATA_FILE, BACKUP_FILE, authFs,
                   authArrived>>

\* loadMACWhitelist: fs.readFile of the backup file returns (lines 45-60);
\* with no backup the load starts fresh and the handler runs
loadMACWhitelistBackup(r) ==
    /\ authReq[r].pc = "readBackup"
    /\ IF Parses(BACKUP_FILE)
       THEN /\ authReq' = [authReq EXCEPT ![r].pc = "restore",
                                          ![r].backupData = BACKUP_FILE]
            /\ UNCHANGED <<macWhitelist, authStatistics>>
       ELSE Loaded(r, [NoFile EXCEPT !.kind = "object", !.hasArray = TRUE])
    /\ UNCHANGED <<enhanced, now, peer, dbVars, rateVars, DATA_FILE, BACKUP_FILE, authFs,
                   authArrived>>

\* loadMACWhitelist: the writeFile that restores the main file returns (lines
\* 50-55) and the handler runs on the backup's data
loadMACWhitelistRestore(r) ==
    /\ authReq[r].pc = "restore"
    /\ DATA_FILE' = IF authFs.main THEN authReq[r].backupData ELSE DATA_FILE
    /\ Loaded(r, authReq[r].backupData)
    /\ UNCHANGED <<enhanced, now, peer, dbVars, rateVars, BACKUP_FILE, authFs, authArrived>>

\* saveMACWhitelist: the writeFile of the main file returns (lines 96-103)
saveMACWhitelistMain(r) ==
    /\ authReq[r].pc = "writeMain"
    /\ DATA_FILE' = IF authFs.main THEN authReq[r].jsonData ELSE DATA_FILE
    /\ authReq' = [authReq EXCEPT ![r].pc = "writeBackup"]
    /\ UNCHANGED <<enhanced, now, peer, dbVars, rateVars, macWhitelist, authStatistics,
                   BACKUP_FILE, authFs, authArrived>>

\* saveMACWhitelist: the writeFile of the backup returns (lines 105-111) and
\* the action handler sends its response
saveMACWhitelistBackup(r) ==
    /\ authReq[r].pc = "writeBackup"
    /\ BACKUP_FILE' = IF authFs.backup THEN authReq[r].jsonData ELSE BACKUP_FILE
    /\ authReq' = [authReq EXCEPT ![r].pc = "done", ![r].status = authReq[r].pending]
    /\ UNCHANGED <<enhanced, now, peer, dbVars, rateVars, macWhitelist, authStatistics,
                   DATA_FILE, authFs, authArrived>>

\* the wall clock moves between requests
AuthTick ==
    /\ now < MaxTime
    /\ \A r \in Tasks : authReq[r].pc \in {"idle", "done"}
    /\ now' = now + 1
    /\ UNCHANGED <<enhanced, others>>

NextAuth ==
    \/ AuthTick
    \/ \E r \in Tasks :
        \/ authHandler(r)
        \/ loadMACWhitelistMain(r)
        \/ loadMACWhitelistBackup(r)
        \/ loadMACWhitelistRestore(r)
        \/ saveMACWhitelistMain(r)
        \/ saveMACWhitelistBackup(r)

SpecAuth == InitAuth /\ [][NextAuth]_vars


\* ---------------------------------------------------------------------
\* A process recycle: the platform ends the process when no request is in
\* flight and starts a new one on the same storage locations.  Everything in
\* memory is gone; `recycled` remembers the snapshot of the last persist of
\* the old process, which returned true.
\* ---------------------------------------------------------------------
InitRecycle ==
    /\ memoryStore = [macAddresses |-> <<>>, statistics |-> ZeroStatistics,
                      lastLoaded |-> Never, initialized |-> FALSE]
    /\ MEMORY_BACKUP = [id |-> 0]
    /\ disk = [l \in LocationNames |-> SnapshotFile(<<Used("bb")>>, StatsOf(1, 1))]
    /\ fs \in FileSystems
    /\ now = 1
    /\ running = 0
    /\ pc = [r \in Tasks |-> "idle"]
    /\ load = [r \in Tasks |-> NoLoad]
    /\ save = [r \in Tasks |-> NoSave]
    /\ resp = [r \in Tasks |-> NoResponse]
    /\ req = [r \in Tasks |-> NoRequest]
    /\ arrived = 0
    /\ saveCount = 0
    /\ landed = [l \in LocationNames |-> 0]
    /\ OthersIdle

Recycle ==
    /\ recycled.n = 0
    /\ saveCount > 0
    /\ \A r \in Tasks : pc[r] \in {"idle", "done"}
    /\ \E r \in Tasks :
        /\ save[r].id = saveCount
        /\ saved(save[r].results)
        /\ recycled' = [n |-> 1, data |-> save[r].data]
    /\ memoryStore' = [macAddresses |-> <<>>, statistics |-> ZeroStatistics,
                       lastLoaded |-> Never, initialized |-> FALSE]
    /\ MEMORY_BACKUP' = [id |-> 0]
    /\ running' = 0
    /\ pc' = [r \in Tasks |-> "idle"]
    /\ load' = [r \in Tasks |-> NoLoad]
    /\ save' = [r \in Tasks |-> NoSave]
    /\ resp' = [r \in Tasks |-> NoResponse]
    /\ req' = [r \in Tasks |-> NoRequest]
    /\ arrived' = 0
    /\ saveCount' = 0
    /\ landed' = [l \in LocationNames |-> 0]
    /\ UNCHANGED <<disk, fs, now, peer, variants>>

\* the requests of the recycle runs: mutations with the admin key
RecycleRequests ==
    {q \in RequestsFor("add-mac") \cup RequestsFor("remove-mac") :
        q.adminKey = ADMIN_SECRET_KEY /\ q.macAddress \in {"aa", "bb"}}

NextRecycle ==
    \/ Recycle
    \/ \E r \in Tasks :
        \/ handler(r)
        \/ loadFromStorage(r)
        \/ saveToStorageMkdir(r)
        \/ saveToStorageWrite(r)
        \/ HandleKept(r, handleAddMAC, RecycleRequests \cap RequestsFor("add-mac"))
        \/ HandleKept(r, handleRemoveMAC,
                      RecycleRequests \cap RequestsFor("remove-mac"))

SpecRecycle == InitRecycle /\ [][NextRecycle]_vars


\* =====================================================================
\* Properties
\* =====================================================================

\* C1 -- as stated: every snapshot saveToStorage builds, and every file it has
\* written, carries statistics equal to the ones recomputed from the snapshot's
\* own entries: total is the number of entries, neverUsed the number of entries
\* with a null lastSeen, totalAccesses the sum of the accessCount fields.
\* saveToStorage serializes memoryStore.statistics as it finds it, and only
\* list-macs recomputes it, so the statement fails on the code.
C1_SnapshotSelfConsistent ==
    LET consistent(entries, statistics) ==
            /\ statistics.total = Len(entries)
            /\ statistics.neverUsed =
                   Cardinality({i \in 1..Len(entries) : entries[i].lastSeen = Never})
            /\ statistics.totalAccesses = SumAccessCount(entries)
    IN  /\ \A r \in Tasks :
            save[r].id # 0 =>
                consistent(save[r].data.macAddresses, save[r].data.statistics)
        /\ \A l \in LocationNames :
            landed[l] # 0 => consistent(disk[l].macAddresses, disk[l].statistics)

\* C2 -- as stated: loadFromStorage reads Primary, Backup, Fallback in that
\* order; every location it went past was unreadable, unparseable or without a
\* macAddresses array; it stops at the first location that parses and has a
\* macAddresses array, and populates the store from it; when there is none it
\* has read all three.  A location whose array holds a null element has a
\* macAddresses array and is gone past all the same, so the statement fails.
C2_FirstLocationWithArrayWins ==
    \A r \in Tasks :
        (pc[r] = "loaded" /\ load[r].reads # <<>>) =>
            LET reads == load[r].reads
                last == reads[Len(reads)].file
                hasArray(f) == f.kind = "object" /\ f.hasArray
            IN  /\ \A i \in 1..Len(reads) : reads[i].name = Locations[i]
                /\ \A i \in 1..(Len(reads) - 1) : ~hasArray(reads[i].file)
                /\ IF hasArray(last)
                   THEN /\ load[r].winner = Len(reads)
                        /\ MapKeys(memoryStore.macAddresses) =
                               {last.macAddresses[i].macAddress :
                                    i \in 1..Len(last.macAddresses)}
                   ELSE load[r].winner = 0 /\ Len(reads) = Len(Locations)

\* C2 -- amended: the same with "has a macAddresses array none of whose
\* elements is null" for "has a macAddresses array": loadFromStorage reads the
\* locations in order, goes past every location that is unreadable, unparseable,
\* without a macAddresses array or with a null element in it, stops at the first
\* other one and populates the store from it, and reads nothing after it.
C2_FirstValidLocationWins ==
    \A r \in Tasks :
        (pc[r] = "loaded" /\ load[r].reads # <<>>) =>
            LET reads == load[r].reads
                last == reads[Len(reads)].file
                valid(f) == /\ f.kind = "object"
                            /\ f.hasArray
                            /\ \A i \in 1..Len(f.macAddresses) :
                                   f.macAddresses[i] # NullItem
            IN  /\ \A i \in 1..Len(reads) : reads[i].name = Locations[i]
                /\ \A i \in 1..(Len(reads) - 1) : ~valid(reads[i].file)
                /\ IF valid(last)
                   THEN /\ load[r].winner = Len(reads)
                        /\ MapKeys(memoryStore.macAddresses) =
                               {last.macAddresses[i].macAddress :
                                    i \in 1..Len(last.macAddresses)}
                   ELSE load[r].winner = 0 /\ Len(reads) = Len(Locations)

\* C2 witness: a load that went past an array with a null element and past a
\* map-shaped file, and populated the store from Fallback
C2_Witness ==
    \E r \in Tasks :
        /\ pc[r] = "loaded"
        /\ load[r].winner = 3
        /\ load[r].reads[1].file = SnapshotFile(<<Fresh("bb"), NullItem>>, StatsOf(1, 0))
        /\ load[r].reads[2].file = MapShapedFile
        /\ MapKeys(memoryStore.macAddresses) = {"aa", "bb"}

\* C3 -- after a load that took its data from Backup or Fallback (no valid
\* data before it), the store holds exactly the entries of that snapshot, one
\* per distinct address, the later element winning: nothing that an earlier
\* location or an earlier state left in the Map survives.
C3_LowerPriorityLoadsExactly ==
    \A r \in Tasks :
        (pc[r] = "loaded" /\ load[r].winner > 1) =>
            LET entries == load[r].reads[load[r].winner].file.macAddresses
                addresses == {entries[i].macAddress : i \in 1..Len(entries)}
                lastOf(k) == CHOOSE i \in 1..Len(entries) :
                                 /\ entries[i].macAddress = k
                                 /\ \A j \in (i + 1)..Len(entries) :
                                        entries[j].macAddress # k
                m == memoryStore.macAddresses
            IN  /\ Len(m) = Cardinality(addresses)
                /\ MapKeys(m) = addresses
                /\ \A k \in addresses : MapGet(m, k) = entries[lastOf(k)]

\* C3 witness: Primary held an entry and then a null element, Backup was
\* missing, and the store holds the one entry of Fallback
C3_Witness ==
    \E r \in Tasks :
        /\ pc[r] = "loaded"
        /\ load[r].winner = 3
        /\ load[r].reads[1].file = SnapshotFile(<<Fresh("bb"), NullItem>>, StatsOf(1, 0))
        /\ load[r].reads[2].file = NoFile
        /\ load[r].reads[3].file = SnapshotFile(<<Fresh("aa")>>, StatsOf(1, 0))
        /\ memoryStore.macAddresses = <<[key |-> "aa", value |-> Fresh("aa")]>>

\* C4 -- whatever the three locations hold, a pending read always completes
\* into the next step of the load, initializeStorage has marked the store
\* initialized when it returns, the store is empty when all three locations
\* were read and none was valid, and the request is answered normally.
C4_LoadNeverFatal ==
    \A r \in Tasks :
        /\ (pc[r] = "readFile" /\ running = 0) => ENABLED loadFromStorage(r)
        /\ pc[r] \in {"loaded", "done"} => memoryStore.initialized
        /\ (pc[r] = "loaded" /\ load[r].reads # <<>> /\ load[r].winner = 0) =>
               /\ Len(load[r].reads) = Len(Locations)
               /\ memoryStore.macAddresses = <<>>
        /\ pc[r] = "done" => resp[r].sent /\ resp[r].status = 200

\* C4 witness: an array with a null element, an unparseable file and a missing
\* file; the store is empty and initialized and the request was answered
C4_Witness ==
    \E r \in Tasks :
        /\ disk["Primary"] = SnapshotFile(<<Fresh("bb"), NullItem>>, StatsOf(1, 0))
        /\ disk["Backup"] = GarbageFile
        /\ disk["Fallback"] = NoFile
        /\ pc[r] = "done"
        /\ resp[r].status = 200
        /\ memoryStore.initialized
        /\ memoryStore.macAddresses = <<>>

\* C5 -- as stated: over the life of the process the store is populated from
\* storage at most once (a load step that populates it finds a store that no
\* load has populated before), and a request that arrives once the store is
\* initialized goes straight to its handler.  initializeStorage tests
\* memoryStore.initialized before its await and sets it after, so every request
\* that arrives while the first load is reading runs a load of its own: the
\* first half fails on the code.
C5_PopulatedAtMostOnce ==
    [][\A r \in Tasks :
          /\ (pc[r] = "readFile" /\ load'[r].winner # 0) =>
                 memoryStore.lastLoaded = Never
          /\ (pc[r] \in {"idle", "done"} /\ pc'[r] \notin {"idle", "done"}
                  /\ memoryStore.initialized) =>
                 pc'[r] = "loaded"]_vars

\* C6 -- every saveToStorage records one result per location, in the order
\* Primary, Backup, Fallback: when it is writing location i the i-1 locations
\* before it have their result, success or failure (a failed mkdir is the
\* failure of Primary); when it has returned all three have theirs, every
\* location the file system accepts was written, and an awaiting handler has
\* its response: no failure ends the loop or the call.
C6_EveryLocationAttempted ==
    \A r \in Tasks :
        LET results == save[r].results
        IN  /\ \A i \in 1..Len(results) :
                 /\ results[i].name = Locations[i]
                 /\ results[i].success <=> Locations[i] \in fs.writable
            /\ pc[r] = "mkdir" => save[r].target = 1 /\ results = <<>>
            /\ pc[r] = "writeFile" => Len(results) = save[r].target - 1
            /\ (pc[r] = "done" /\ save[r].id # 0) =>
                   /\ Len(results) = Len(Locations)
                   /\ save[r].awaited => resp[r].sent

\* C6 witness: mkdir failed for Primary, the write of Backup failed, and the
\* write of Fallback was still made and landed
C6_Witness ==
    \E r \in Tasks :
        /\ pc[r] = "done"
        /\ Len(save[r].results) = 3
        /\ save[r].results[1].error = "mkdir"
        /\ save[r].results[2].error = "writeFile"
        /\ save[r].results[3].success
        /\ landed["Fallback"] = save[r].id
        /\ disk["Fallback"] = Stringify(save[r].data)

\* C7 -- the snapshot saveToStorage builds holds the entries of the store as
\* the store is at the call; the value it returns (the persistent flag of a
\* handler that awaits it) is true exactly when the file system accepted the
\* write of at least one location; and every location that accepted it holds
\* the entries of that snapshot for as long as no later persist has written
\* the location.
C7_SavedIffSomeLocationAccepted ==
    /\ [](\A r \in Tasks :
            (pc[r] = "done" /\ save[r].id # 0) =>
                /\ save[r].awaited =>
                       (resp[r].persistent = "true" <=> fs.writable # {})
                /\ \A l \in fs.writable :
                       landed[l] = save[r].id =>
                           /\ disk[l].kind = "object"
                           /\ disk[l].hasArray
                           /\ disk[l].macAddresses = save[r].data.macAddresses)
    /\ [][\A r \in Tasks :
            (pc[r] = "loaded" /\ pc'[r] = "mkdir") =>
                save'[r].data.macAddresses = MapValues(memoryStore'.macAddresses)]_vars

\* C7 witness: exactly one location rejects its write, the call returned true
\* and the two other locations hold the snapshot of the call
C7_Witness ==
    \E r \in Tasks :
        /\ pc[r] = "done"
        /\ save[r].awaited
        /\ resp[r].persistent = "true"
        /\ Cardinality(fs.writable) = 2
        /\ save[r].data.macAddresses # <<>>
        /\ \A l \in fs.writable :
               landed[l] = save[r].id /\ disk[l] = Stringify(save[r].data)

\* C8 -- an add, update, remove or bulk-add that gets as far as its persist
\* has changed the store before the first write starts, no step of a persist
\* changes the store, and its response is a success (200 or 201) whose
\* persistent flag is false when every location rejects the write and true
\* when at least one accepts it.
C8_StorageFailureNeverFailsRequest ==
    /\ [](\A r \in Tasks :
            (pc[r] = "done" /\ save[r].awaited) =>
                /\ resp[r].sent
                /\ resp[r].status \in {200, 201}
                /\ resp[r].persistent = IF fs.writable = {} THEN "false" ELSE "true")
    /\ [][\A r \in Tasks :
            /\ (pc[r] = "loaded" /\ pc'[r] = "mkdir" /\ save'[r].awaited) =>
                   LET before == memoryStore.macAddresses
                       after == memoryStore'.macAddresses
                       key == resp'[r].macAddress
                   IN  IF resp'[r].status = 201
                       THEN ~MapHas(before, key) /\ MapHas(after, key)
                       ELSE IF key = Missing
                       THEN Len(after) > Len(before)
                       ELSE IF resp'[r].accessType = Missing
                       THEN MapHas(before, key) /\ ~MapHas(after, key)
                       ELSE /\ MapHas(after, key)
                            /\ MapGet(after, key).accessType = resp'[r].accessType
            /\ (pc[r] \in {"mkdir", "writeFile"} /\ <<pc[r], save[r]>>' # <<pc[r], save[r]>>) =>
                   memoryStore' = memoryStore]_vars

\* C8 witness: no location accepts a write, and the add was answered 201 with
\* persistent false while the store holds the new entry
C8_Witness ==
    \E r \in Tasks :
        /\ pc[r] = "done"
        /\ fs.writable = {}
        /\ save[r].awaited
        /\ resp[r].status = 201
        /\ resp[r].persistent = "false"
        /\ MapHas(memoryStore.macAddresses, resp[r].macAddress)
        /\ \A l \in LocationNames : landed[l] = 0

\* C9 -- as stated: once no persist is in flight, the memory backup holds the
\* snapshot of the persist that started last.  The backup is assigned when a
\* persist returns, so of two overlapping persists the one that returns last
\* leaves its snapshot there, whichever started last.
C9_BackupHoldsLastStarted ==
    (saveCount > 0 /\ \A r \in Tasks : pc[r] \notin {"mkdir", "writeFile"}) =>
        MEMORY_BACKUP.id = saveCount

\* C9 -- amended: the memory backup holds the snapshot of the persist that
\* returned last: every return of saveToStorage assigns it the snapshot the
\* call built, whatever the writes did, and nothing else assigns it.
C9_BackupHoldsLastReturned ==
    [][/\ \A r \in Tasks :
            (pc[r] \in {"mkdir", "writeFile"} /\ pc'[r] = "done") =>
                MEMORY_BACKUP' = [id |-> save[r].id]
       /\ MEMORY_BACKUP' # MEMORY_BACKUP =>
            \E r \in Tasks : pc[r] \in {"mkdir", "writeFile"} /\ pc'[r] = "done"]_vars

\* C9 witness: every write is rejected, two persists overlapped and the one
\* that started first returned last: the backup holds its snapshot
C9_Witness ==
    /\ fs.writable = {}
    /\ \A r \in Tasks : pc[r] = "done"
    /\ saveCount = 2
    /\ MEMORY_BACKUP.id = 1
    /\ \E r \in Tasks : save[r].id = 1 /\ save[r].data.macAddresses # <<>>

\* C10 -- check-access with a non-empty candidate array authorizes with the
\* entry of the first candidate, in list order, whose lowercase form is a key
\* of the store: the response carries that entry, that entry alone is changed,
\* and what comes after it in the list is never looked at (a later candidate
\* that is whitelisted keeps its entry as it was, one that is no string does
\* not make toLowerCase throw).  With no such candidate the answer is 403 and
\* the store is as it was.
C10_FirstWhitelistedCandidateWins ==
    [][\A r \in Tasks :
          (pc[r] = "loaded" /\ pc'[r] # "loaded" /\ req'[r].isArray
               /\ req'[r].macAddresses # <<>>) =>
              LET candidates == req'[r].macAddresses
                  before == memoryStore.macAddresses
                  after == memoryStore'.macAddresses
                  hits == {i \in 1..Len(candidates) :
                              /\ candidates[i] # NotAString
                              /\ toLowerCase(candidates[i]) \in MapKeys(before)}
                  first == CHOOSE i \in hits : \A j \in hits : i <= j
                  key == toLowerCase(candidates[first])
                  stringsUpTo(n) == \A j \in 1..n : candidates[j] # NotAString
              IN  IF hits # {} /\ stringsUpTo(first)
                  THEN /\ resp'[r].status = 200
                       /\ resp'[r].macAddress = MapGet(before, key).macAddress
                       /\ resp'[r].accessCount = MapGet(before, key).accessCount + 1
                       /\ MapGet(after, key).accessCount =
                              MapGet(before, key).accessCount + 1
                       /\ MapKeys(after) = MapKeys(before)
                       /\ \A k \in MapKeys(before) \ {key} :
                              MapGet(after, k) = MapGet(before, k)
                  ELSE /\ resp'[r].status =
                              IF stringsUpTo(Len(candidates)) THEN 403 ELSE 500
                       /\ after = before]_vars

\* C10 witness: both candidates are whitelisted; the request was authorized
\* with the entry of the first one and the entry of the second is untouched
C10_Witness ==
    \E r \in Tasks :
        /\ pc[r] # "loaded"
        /\ req[r].macAddresses = <<"AA", "bb">>
        /\ resp[r].status = 200
        /\ resp[r].macAddress = "aa"
        /\ MapKeys(memoryStore.macAddresses) = {"aa", "bb"}
        /\ MapGet(memoryStore.macAddresses, "aa").accessCount = 2
        /\ MapGet(memoryStore.macAddresses, "bb") = Fresh("bb")

\* C11 -- a check-access answered 200 changes exactly one entry of the
\* store: its accessCount is one more, its lastSeen is the current time, its
\* lastDevice is the device metadata of the request (left as it was when the
\* request carries none), its other fields are as before; every other entry
\* and the set of keys are as before; and a persist has started on the store
\* as it is after the change, the response being sent without waiting for it.
C11_AuthorizedCheckBookkeeping ==
    [][\A r \in Tasks :
          (pc[r] = "loaded" /\ pc'[r] # "loaded" /\ req'[r].action = "check-access"
               /\ resp'[r].status = 200) =>
              LET before == memoryStore.macAddresses
                  after == memoryStore'.macAddresses
              IN  /\ MapKeys(after) = MapKeys(before)
                  /\ \E k \in MapKeys(before) :
                        LET old == MapGet(before, k)
                            new == MapGet(after, k)
                        IN  /\ new.accessCount = old.accessCount + 1
                            /\ new.lastSeen = now
                            /\ new.lastDevice = IF req'[r].deviceInfo # NoDevice
                                                THEN req'[r].deviceInfo
                                                ELSE old.lastDevice
                            /\ new = [old EXCEPT !.accessCount = new.accessCount,
                                                 !.lastSeen = new.lastSeen,
                                                 !.lastDevice = new.lastDevice]
                            /\ \A j \in MapKeys(before) \ {k} :
                                   MapGet(after, j) = MapGet(before, j)
                  /\ saveCount' = saveCount + 1
                  /\ pc'[r] = "mkdir"
                  /\ save'[r].id = saveCount'
                  /\ save'[r].data.macAddresses = MapValues(after)
                  /\ resp'[r].sent]_vars

\* C11 witness: the entry had been used from another device at an earlier
\* time; the check at time 2 from device d1 left it with accessCount 2,
\* lastSeen 2 and lastDevice d1, and its persist is under way
C11_Witness ==
    \E r \in Tasks :
        /\ pc[r] \in {"mkdir", "writeFile"}
        /\ req[r].action = "check-access"
        /\ req[r].deviceInfo = "d1"
        /\ resp[r].status = 200
        /\ now = 2
        /\ MapHas(memoryStore.macAddresses, "bb")
        /\ MapGet(memoryStore.macAddresses, "bb") =
               [Used("bb") EXCEPT !.accessCount = 2, !.lastSeen = 2,
                                  !.lastDevice = "d1"]

\* C12 -- a check-access with a non-empty array of address strings is answered
\* 403 exactly when no candidate, lowercased, is a key of the store; and any
\* check-access answered 403 leaves the store as it was and starts no persist.
C12_DeniedIffNoCandidateIsKey ==
    [][\A r \in Tasks :
          (pc[r] = "loaded" /\ pc'[r] # "loaded" /\ req'[r].action = "check-access") =>
              LET candidates == req'[r].macAddresses
                  wellFormed == /\ req'[r].isArray
                                /\ candidates # <<>>
                                /\ \A i \in 1..Len(candidates) :
                                       candidates[i] # NotAString
                  noneIsKey == \A i \in 1..Len(candidates) :
                                   toLowerCase(candidates[i]) \notin
                                       MapKeys(memoryStore.macAddresses)
              IN  /\ wellFormed => (resp'[r].status = 403 <=> noneIsKey)
                  /\ resp'[r].status = 403 =>
                         /\ memoryStore' = memoryStore
                         /\ saveCount' = saveCount
                         /\ save' = save
                         /\ pc'[r] = "done"]_vars

\* C12 witness: neither candidate is a key of the store, the check was
\* answered 403 and no persist was ever started
C12_Witness ==
    \E r \in Tasks :
        /\ pc[r] = "done"
        /\ req[r].macAddresses = <<"aa", "AA">>
        /\ resp[r].status = 403
        /\ MapKeys(memoryStore.macAddresses) = {"bb"}
        /\ saveCount = 0

\* C13 -- an add-mac of A answered 201 and, with nothing persisted since, a
\* check-access whose candidates are address strings, one of them A in some
\* letter case with no other whitelisted address before it: the check is
\* answered 200 with the entry of A, whose accessCount goes from 0 to 1 and
\* whose tier is the one given at the add (trial when none or an unknown one
\* was given).
C13_AddThenCheckAuthorizesAdded ==
    [][\A r \in Tasks : \A q \in Tasks \ {r} :
          LET candidates == req'[r].macAddresses
              key == resp[q].macAddress
              before == memoryStore.macAddresses
              after == memoryStore'.macAddresses
              tier == IF req[q].accessType \in {"trial", "unlimited", "admin"}
                      THEN req[q].accessType ELSE "trial"
          IN  (/\ pc[r] = "loaded" /\ pc'[r] # "loaded"
               /\ req'[r].action = "check-access" /\ req'[r].isArray
               /\ req[q].action = "add-mac" /\ resp[q].status = 201
               /\ saveCount = save[q].id
               /\ \A i \in 1..Len(candidates) : candidates[i] # NotAString
               /\ \E i \in 1..Len(candidates) :
                      /\ toLowerCase(candidates[i]) = key
                      /\ \A j \in 1..(i - 1) :
                             toLowerCase(candidates[j]) \notin MapKeys(before) \ {key}) =>
                  /\ resp'[r].status = 200
                  /\ resp'[r].macAddress = key
                  /\ resp'[r].accessType = tier
                  /\ resp'[r].accessCount = 1
                  /\ MapGet(after, key).accessCount = 1]_vars

\* C14 -- add-mac with the admin key and an address: when the lowercased
\* address is a key it is answered 409, the store is as it was and no persist
\* starts; otherwise the store gains exactly that key, mapped to an entry with
\* accessCount 0, null lastSeen, null lastDevice, addedAt now and the tier of
\* the request when it is one of trial, unlimited, admin and trial otherwise,
\* every other entry is as it was, and a persist starts on the new store whose
\* return the 201 response awaits.
C14_AddInsertsOneOrConflicts ==
    [][\A r \in Tasks :
          (pc[r] = "loaded" /\ pc'[r] # "loaded" /\ req'[r].action = "add-mac"
               /\ req'[r].adminKey = ADMIN_SECRET_KEY
               /\ req'[r].macAddress # Missing) =>
              LET before == memoryStore.macAddresses
                  after == memoryStore'.macAddresses
                  key == toLowerCase(req'[r].macAddress)
                  tier == IF req'[r].accessType \in {"trial", "unlimited", "admin"}
                          THEN req'[r].accessType ELSE "trial"
              IN  IF key \in MapKeys(before)
                  THEN /\ resp'[r].status = 409
                       /\ resp'[r].sent
                       /\ memoryStore' = memoryStore
                       /\ saveCount' = saveCount /\ save' = save
                       /\ pc'[r] = "done"
                  ELSE /\ resp'[r].status = 201
                       /\ MapKeys(after) = MapKeys(before) \cup {key}
                       /\ Len(after) = Len(before) + 1
                       /\ MapGet(after, key) =
                              [macAddress |-> key, accessType |-> tier,
                               addedAt |-> now, lastSeen |-> Never,
                               accessCount |-> 0, lastDevice |-> NoDevice,
                               updatedAt |-> Never]
                       /\ \A k \in MapKeys(before) :
                              MapGet(after, k) = MapGet(before, k)
                       /\ saveCount' = saveCount + 1
                       /\ pc'[r] = "mkdir"
                       /\ save'[r].awaited
                       /\ save'[r].data.macAddresses = MapValues(after)]_vars

\* C14 witness: AA was added with an unknown tier and is in the store as aa,
\* trial, never used; the add of the address already there was answered 409
C14_Witness ==
    \E r, q \in Tasks :
        /\ req[r].action = "add-mac"
        /\ req[r].macAddress = "AA"
        /\ req[r].accessType = "bogus"
        /\ resp[r].status = 201
        /\ MapHas(memoryStore.macAddresses, "aa")
        /\ MapGet(memoryStore.macAddresses, "aa") = NewEntry("aa", "trial", 1)
        /\ req[q].action = "add-mac"
        /\ req[q].macAddress = "bb"
        /\ resp[q].status = 409
        /\ MapHas(memoryStore.macAddresses, "bb")
        /\ MapGet(memoryStore.macAddresses, "bb") = Used("bb")

\* C15 -- update-access with the admin key, an address and a tier among
\* trial, unlimited, admin: when the lowercased address is no key it is
\* answered 404, the store is as it was and no persist starts; otherwise the
\* entry of that key gets the tier and updatedAt now and keeps its macAddress,
\* addedAt, accessCount, lastSeen and lastDevice, the keys and the other
\* entries are as they were, and a persist starts whose return the 200
\* response awaits.
C15_UpdateOverwritesTierOnly ==
    [][\A r \in Tasks :
          (pc[r] = "loaded" /\ pc'[r] # "loaded" /\ req'[r].action = "update-access"
               /\ req'[r].adminKey = ADMIN_SECRET_KEY
               /\ req'[r].macAddress # Missing
               /\ req'[r].accessType \in {"trial", "unlimited", "admin"}) =>
              LET before == memoryStore.macAddresses
                  after == memoryStore'.macAddresses
                  key == toLowerCase(req'[r].macAddress)
              IN  IF key \notin MapKeys(before)
                  THEN /\ resp'[r].status = 404
                       /\ resp'[r].sent
                       /\ memoryStore' = memoryStore
                       /\ saveCount' = saveCount /\ save' = save
                       /\ pc'[r] = "done"
                  ELSE /\ resp'[r].status = 200
                       /\ MapKeys(after) = MapKeys(before)
                       /\ Len(after) = Len(before)
                       /\ MapGet(after, key) =
                              [MapGet(before, key) EXCEPT
                                  !.accessType = req'[r].accessType,
                                  !.updatedAt = now]
                       /\ \A k \in MapKeys(before) \ {key} :
                              MapGet(after, k) = MapGet(before, k)
                       /\ saveCount' = saveCount + 1
                       /\ pc'[r] = "mkdir"
                       /\ save'[r].awaited
                       /\ save'[r].data.macAddresses = MapValues(after)]_vars

\* C15 witness: at time 2 the tier of the used entry was set to admin; its
\* addedAt, accessCount, lastSeen and lastDevice are those of time 1; the
\* update of an address that is not there was answered 404
C15_Witness ==
    \E r, q \in Tasks :
        /\ req[r].action = "update-access"
        /\ req[r].macAddress = "bb"
        /\ resp[r].status = 200
        /\ MapHas(memoryStore.macAddresses, "bb")
        /\ MapGet(memoryStore.macAddresses, "bb") =
               [Used("bb") EXCEPT !.accessType = "admin", !.updatedAt = 2]
        /\ req[q].action = "update-access"
        /\ req[q].macAddress = "aa"
        /\ req[q].accessType = "admin"
        /\ resp[q].status = 404

\* C16 -- remove-mac with the admin key and an address: when the lowercased
\* address is no key it is answered 404, the store is as it was and no persist
\* starts; otherwise exactly that key leaves the store, the other entries are
\* as they were, and a persist starts on the store without it; and as long as
\* nothing has been persisted since, a check-access that offers that address
\* alone is answered 403.
C16_RemoveDeletesOneOrNotFound ==
    [][\A r \in Tasks :
          LET before == memoryStore.macAddresses
              after == memoryStore'.macAddresses
              key == toLowerCase(req'[r].macAddress)
          IN  /\ (pc[r] = "loaded" /\ pc'[r] # "loaded"
                     /\ req'[r].action = "remove-mac"
                     /\ req'[r].adminKey = ADMIN_SECRET_KEY
                     /\ req'[r].macAddress # Missing) =>
                    IF key \notin MapKeys(before)
                    THEN /\ resp'[r].status = 404
                         /\ resp'[r].sent
                         /\ memoryStore' = memoryStore
                         /\ saveCount' = saveCount /\ save' = save
                         /\ pc'[r] = "done"
                    ELSE /\ resp'[r].status = 200
                         /\ MapKeys(after) = MapKeys(before) \ {key}
                         /\ Len(after) = Len(before) - 1
                         /\ \A k \in MapKeys(after) :
                                MapGet(after, k) = MapGet(before, k)
                         /\ saveCount' = saveCount + 1
                         /\ pc'[r] = "mkdir"
                         /\ save'[r].awaited
                         /\ save'[r].data.macAddresses = MapValues(after)
              /\ \A q \in Tasks \ {r} :
                    (/\ pc[r] = "loaded" /\ pc'[r] # "loaded"
                     /\ req'[r].action = "check-access" /\ req'[r].isArray
                     /\ req[q].action = "remove-mac" /\ resp[q].status = 200
                     /\ saveCount = save[q].id
                     /\ Len(req'[r].macAddresses) = 1
                     /\ req'[r].macAddresses[1] # NotAString
                     /\ toLowerCase(req'[r].macAddresses[1]) = resp[q].macAddress) =>
                        /\ resp'[r].status = 403
                        /\ memoryStore' = memoryStore]_vars

\* C17 -- bulk-add with the admin key and an array of items none of which is
\* null: item i is reported added exactly when it has an address whose
\* lowercase form is neither a key of the store before the batch nor the
\* address of an earlier item of the batch; an item with an address that is
\* not added is reported as already existing; totalAdded, the number of items
\* reported added and the growth of the store are the same number, and the
\* store gains exactly the addresses reported added.
C17_BulkChecksAgainstMutatedStore ==
    [][\A r \in Tasks :
          LET items == req'[r].items
              before == memoryStore.macAddresses
              after == memoryStore'.macAddresses
              results == resp'[r].results
              address(i) == toLowerCase(items[i].macAddress)
              isAdded(i) ==
                  /\ items[i].macAddress # Missing
                  /\ address(i) \notin MapKeys(before)
                  /\ \A j \in 1..(i - 1) :
                         items[j].macAddress = Missing \/ address(j) # address(i)
              reported == {i \in 1..Len(results) : results[i].success}
          IN  (/\ pc[r] = "loaded" /\ pc'[r] # "loaded"
               /\ req'[r].action = "bulk-add" /\ req'[r].isArray
               /\ req'[r].adminKey = ADMIN_SECRET_KEY
               /\ \A i \in 1..Len(items) : items[i] # NullItem) =>
                  /\ resp'[r].status = 200
                  /\ Len(results) = Len(items)
                  /\ \A i \in 1..Len(items) :
                         /\ results[i].success = isAdded(i)
                         /\ (items[i].macAddress # Missing /\ ~isAdded(i)) =>
                                results[i].message = "Already exists"
                  /\ resp'[r].totalAdded = Cardinality(reported)
                  /\ resp'[r].totalAdded = Len(after) - Len(before)
                  /\ MapKeys(after) =
                         MapKeys(before) \cup {address(i) : i \in reported}
                  /\ \A k \in MapKeys(before) :
                         MapGet(after, k) = MapGet(before, k)]_vars

\* C17 witness: the batch aa, AA met a store without aa: the first item is
\* reported added, the second as already existing, totalAdded is 1 and the
\* store holds its former entry and aa
C17_Witness ==
    \E r \in Tasks :
        /\ req[r].action = "bulk-add"
        /\ req[r].items = <<[macAddress |-> "aa", accessType |-> "admin"],
                            [macAddress |-> "AA", accessType |-> "admin"]>>
        /\ resp[r].status = 200
        /\ Len(resp[r].results) = 2
        /\ resp[r].results[1].success
        /\ resp[r].results[2].message = "Already exists"
        /\ resp[r].totalAdded = 1
        /\ MapKeys(memoryStore.macAddresses) = {"aa", "bb"}
        /\ Len(memoryStore.macAddresses) = 2

\* C18 -- bulk-add with the admin key and an array: when the batch grew the
\* store, exactly one persist starts, on the store as the batch left it, and
\* the response awaits it; when it did not, no persist starts.
C18_BulkPersistsOnceIffAdded ==
    [][\A r \in Tasks :
          (/\ pc[r] = "loaded" /\ pc'[r] # "loaded"
           /\ req'[r].action = "bulk-add" /\ req'[r].isArray
           /\ req'[r].adminKey = ADMIN_SECRET_KEY) =>
              IF Len(memoryStore'.macAddresses) > Len(memoryStore.macAddresses)
              THEN /\ saveCount' = saveCount + 1
                   /\ pc'[r] = "mkdir"
                   /\ save'[r].awaited
                   /\ save'[r].data.macAddresses = MapValues(memoryStore'.macAddresses)
              ELSE /\ saveCount' = saveCount
                   /\ save' = save
                   /\ pc'[r] = "done"]_vars

\* C19 -- add-mac, update-access, remove-mac, bulk-add and list-macs with a
\* key other than the admin key, whatever else the request holds: answered
\* 403 at once, with a response that carries no field of an entry and no
\* per-item record; the store, statistics included, is as it was and no
\* persist starts.
C19_WrongKeyRejectedFirst ==
    [][\A r \in Tasks :
          (/\ pc[r] = "loaded" /\ pc'[r] # "loaded"
           /\ req'[r].method = "POST"
           /\ req'[r].action \in {"add-mac", "update-access", "remove-mac",
                                  "bulk-add", "list-macs"}
           /\ req'[r].adminKey # ADMIN_SECRET_KEY) =>
              /\ resp'[r].status = 403
              /\ resp'[r].sent
              /\ resp'[r].macAddress = Missing
              /\ resp'[r].accessType = Missing
              /\ resp'[r].results = <<>>
              /\ memoryStore' = memoryStore
              /\ saveCount' = saveCount
              /\ save' = save
              /\ pc'[r] = "done"]_vars

\* C19 witness: a remove of the whitelisted address and a bulk-add with a null
\* item, both under a wrong key, were answered 403; the store is as loaded
C19_Witness ==
    \E r, q \in Tasks :
        /\ req[r].action = "remove-mac"
        /\ req[r].macAddress = "bb"
        /\ req[r].adminKey = "wrong-key"
        /\ resp[r].status = 403
        /\ req[q].action = "bulk-add"
        /\ req[q].adminKey = "wrong-key"
        /\ req[q].items = <<NullItem>>
        /\ resp[q].status = 403
        /\ memoryStore.macAddresses = <<[key |-> "bb", value |-> Used("bb")]>>
        /\ saveCount = 0

\* C20 -- list-macs with the admin key, whatever the store and the statistics
\* object held: afterwards total is the number of entries, neverUsed the
\* number of entries whose lastSeen is null, totalAccesses the sum of the
\* accessCount of all entries, activeLast24h and activeLast7d the number of
\* entries last seen less than a day and less than a week before the one clock
\* value of the step; the entries themselves are as they were.
C20_StatisticsRecomputed ==
    [][\A r \in Tasks :
          (/\ pc[r] = "loaded" /\ pc'[r] # "loaded"
           /\ req'[r].action = "list-macs"
           /\ req'[r].adminKey = ADMIN_SECRET_KEY) =>
              LET m == memoryStore.macAddresses
                  statistics == memoryStore'.statistics
                  sum[n \in 0..Len(m)] ==
                      IF n = 0 THEN 0 ELSE sum[n - 1] + m[n].value.accessCount
                  within(span) ==
                      {k \in MapKeys(m) :
                          /\ MapGet(m, k).lastSeen # Never
                          /\ now - MapGet(m, k).lastSeen < span}
              IN  /\ statistics.total = Cardinality(MapKeys(m))
                  /\ statistics.neverUsed =
                         Cardinality({k \in MapKeys(m) : MapGet(m, k).lastSeen = Never})
                  /\ statistics.totalAccesses = sum[Len(m)]
                  /\ statistics.activeLast24h = Cardinality(within(OneDay))
                  /\ statistics.activeLast7d = Cardinality(within(OneWeek))
                  /\ memoryStore'.macAddresses = m
                  /\ resp'[r].status = 200]_vars

\* C20 witness: a store of one entry last seen at the current clock value and
\* one never seen, with stale statistics, was listed: total 2, one active in
\* the last day and week, one never used, totalAccesses the sum 2 + 1
C20_Witness ==
    \E r \in Tasks :
        /\ req[r].action = "list-macs"
        /\ resp[r].status = 200
        /\ memoryStore.macAddresses =
               <<[key |-> "aa", value |->
                     [Fresh("aa") EXCEPT !.lastSeen = now, !.accessCount = 2]],
                 [key |-> "bb", value |->
                     [Fresh("bb") EXCEPT !.lastSeen = Never, !.accessCount = 1]]>>
        /\ memoryStore.statistics =
               [total |-> 2, activeLast24h |-> 1, activeLast7d |-> 1,
                neverUsed |-> 1, totalAccesses |-> 3]

\* C22 -- for every entry that is in the store before and after a step of the
\* process, accessCount is not negative and not smaller after the step than
\* before it, and a check-access answered 200 adds exactly 1 to the accessCount
\* of the entry it answers with.
C22_AccessCountNeverDecreases ==
    [][LET before == memoryStore.macAddresses
           after == memoryStore'.macAddresses
       IN  /\ \A k \in MapKeys(before) \cap MapKeys(after) :
                  /\ MapGet(after, k).accessCount >= 0
                  /\ MapGet(after, k).accessCount >= MapGet(before, k).accessCount
           /\ \A r \in Tasks :
                  (/\ pc[r] = "loaded" /\ pc'[r] # "loaded"
                   /\ req'[r].action = "check-access"
                   /\ resp'[r].status = 200) =>
                      MapGet(after, resp'[r].macAddress).accessCount =
                          MapGet(before, resp'[r].macAddress).accessCount + 1]_vars

\* C23 -- in every state the keys of the store are lowercase addresses, no
\* key occurs twice, and the macAddress field of an entry is its key.
C23_KeysNormalizedAndUnique ==
    LET m == memoryStore.macAddresses
    IN  /\ \A i \in 1..Len(m) :
               /\ m[i].key \in {"aa", "bb"}
               /\ m[i].value.macAddress = m[i].key
        /\ \A i, j \in 1..Len(m) : m[i].key = m[j].key => i = j

\* C23 witness: AA was added to the loaded store, which holds it under aa next
\* to the loaded bb
C23_Witness ==
    \E r \in Tasks :
        /\ req[r].action = "add-mac"
        /\ req[r].macAddress = "AA"
        /\ resp[r].status = 201
        /\ Len(memoryStore.macAddresses) = 2
        /\ memoryStore.macAddresses[1].key = "bb"
        /\ memoryStore.macAddresses[2].key = "aa"
        /\ memoryStore.macAddresses[2].value.macAddress = "aa"

\* C24 -- an entry that an add-mac, bulk-add or update-access step created or
\* changed has a tier among trial, unlimited, admin; an add-mac, or the first
\* bulk-add item of an address, whose tier is missing or not one of the three
\* creates its entry as trial; an update-access whose tier is not one of the three is answered 400
\* and leaves the store as it was.
C24_TierAlwaysValid ==
    [][\A r \in Tasks :
          LET before == memoryStore.macAddresses
              after == memoryStore'.macAddresses
              tiers == {"trial", "unlimited", "admin"}
              touched == {k \in MapKeys(after) :
                             k \notin MapKeys(before)
                                 \/ MapGet(after, k) # MapGet(before, k)}
              request == req'[r]
          IN  (/\ pc[r] = "loaded" /\ pc'[r] # "loaded"
               /\ request.action \in {"add-mac", "bulk-add", "update-access"}) =>
                  /\ \A k \in touched : MapGet(after, k).accessType \in tiers
                  /\ (request.action = "add-mac" /\ request.accessType \notin tiers) =>
                         \A k \in touched : MapGet(after, k).accessType = "trial"
                  /\ (request.action = "bulk-add" /\ request.isArray) =>
                         \A i \in 1..Len(request.items) :
                             (/\ request.items[i] # NullItem
                              /\ request.items[i].macAddress # Missing
                              /\ request.items[i].accessType \notin tiers
                              /\ toLowerCase(request.items[i].macAddress) \in touched
                              /\ \A j \in 1..(i - 1) :
                                     \/ request.items[j] = NullItem
                                     \/ request.items[j].macAddress = Missing
                                     \/ toLowerCase(request.items[j].macAddress) #
                                            toLowerCase(request.items[i].macAddress)) =>
                                 MapGet(after, toLowerCase(request.items[i].macAddress))
                                     .accessType = "trial"
                  /\ (request.action = "update-access"
                          /\ request.adminKey = ADMIN_SECRET_KEY
                          /\ request.macAddress # Missing
                          /\ request.accessType # Missing
                          /\ request.accessType \notin tiers) =>
                         /\ resp'[r].status = 400
                         /\ memoryStore' = memoryStore
                         /\ saveCount' = saveCount]_vars

\* C24 witness: an update of the whitelisted address to an unknown tier was
\* answered 400 and the entry is as loaded; an add with an unknown tier
\* created its entry as trial
C24_Witness ==
    \E r, q \in Tasks :
        /\ req[r].action = "update-access"
        /\ req[r].macAddress = "bb"
        /\ req[r].accessType = "bogus"
        /\ req[r].adminKey = ADMIN_SECRET_KEY
        /\ resp[r].status = 400
        /\ req[q].action = "add-mac"
        /\ req[q].accessType = "bogus"
        /\ resp[q].status = 201
        /\ MapKeys(memoryStore.macAddresses) = {"aa", "bb"}
        /\ MapGet(memoryStore.macAddresses, "bb") = Used("bb")
        /\ MapGet(memoryStore.macAddresses, "aa").accessType = "trial"

\* C26 -- in every state, the increments of accessCount that check-access
\* has answered 200 for and that the best snapshot on storage does not hold
\* are at most one: summed over the entries of the store, accessCount in
\* memory exceeds the highest accessCount any location holds for that entry
\* by no more than 1, so that a crash in that state loses at most one.
C26_CrashLosesAtMostOneIncrement ==
    LET m == memoryStore.macAddresses
        stored(l, k) ==
            LET entries == disk[l].macAddresses
                at == {i \in 1..Len(entries) : entries[i].macAddress = k}
            IN  IF at = {} THEN 0 ELSE entries[CHOOSE i \in at : TRUE].accessCount
        newest(k) ==
            CHOOSE n \in {stored(l, k) : l \in LocationNames} :
                \A l \in LocationNames : stored(l, k) <= n
        lost(k) ==
            IF MapHas(m, k) /\ MapGet(m, k).accessCount > newest(k)
            THEN MapGet(m, k).accessCount - newest(k) ELSE 0
    IN  lost("aa") + lost("bb") <= 1

\* C30 -- a request that has entered the handler is eventually answered and
\* its task ends, whatever the file system rejects; and a response that was
\* sent stays as it is until the task takes its next request: no second
\* response is sent.
C30_EveryRequestAnsweredOnce ==
    /\ \A r \in Tasks :
           (pc[r] \notin {"idle", "done"}) ~> (pc[r] = "done" /\ resp[r].sent)
    /\ [][\A r \in Tasks :
             resp[r].sent =>
                 \/ resp'[r] = resp[r]
                 \/ pc[r] = "done" /\ pc'[r] # "done" /\ ~resp'[r].sent]_vars

\* C30 witness: on a file system that rejects every mkdir and writeFile a
\* request that awaited its persist has been answered and its task has ended
C30_Witness ==
    \E r \in Tasks :
        /\ fs.writable = {}
        /\ ~fs.mkdir
        /\ pc[r] = "done"
        /\ save[r].awaited
        /\ Len(save[r].results) = Len(Locations)
        /\ resp[r].sent
        /\ resp[r].persistent = "false"

\* C27 -- two instances on the same locations: a write of either instance
\* that completes leaves in the location exactly the snapshot that instance
\* serialized, whatever the location held; so in every state a location holds
\* the whole snapshot of the instance whose write landed there last, and an
\* address that the writer's snapshot does not hold is not in it.
C27_LastWriterWinsPerLocation ==
    /\ [][\A l \in LocationNames :
             /\ \A r \in Tasks :
                    (pc[r] = "writeFile" /\ pc'[r] # "writeFile"
                         /\ Locations[save[r].target] = l) =>
                        disk'[l] = Stringify(save[r].data)
             /\ (peer.target # 0 /\ peer'.target # peer.target
                     /\ Locations[peer.target] = l) =>
                    disk'[l] = Stringify(peer.data)]_vars
    /\ [](\A l \in LocationNames :
             LET keysOf(file) == {file.macAddresses[i].macAddress :
                                     i \in 1..Len(file.macAddresses)}
                 own == {r \in Tasks : save[r].id = landed[l] /\ landed[l] # 0}
                 peerWrote ==
                     /\ peer.added # Missing
                     /\ landed[l] = 0
                     /\ \E i \in 1..Len(Locations) :
                            Locations[i] = l /\ (peer.target = 0 \/ peer.target > i)
             IN  /\ \A r \in own :
                        /\ disk[l] = Stringify(save[r].data)
                        /\ (peer.added # Missing
                                /\ peer.added \notin keysOf(save[r].data)) =>
                               peer.added \notin keysOf(disk[l])
                 /\ peerWrote =>
                        /\ disk[l] = Stringify(peer.data)
                        /\ \A k \in keysOf(disk[l]) : MapHas(peer.macAddresses, k))

\* C27 witness: both instances loaded the snapshot holding bb; the first
\* added aa and the second cc, and every write has completed: Primary holds
\* the first instance's snapshot, without cc, and Fallback the second's,
\* without aa
C27_Witness ==
    LET keysOf(file) == {file.macAddresses[i].macAddress :
                            i \in 1..Len(file.macAddresses)}
    IN  /\ MapKeys(memoryStore.macAddresses) = {"bb", "aa"}
        /\ MapKeys(peer.macAddresses) = {"bb", "cc"}
        /\ peer.target = 0
        /\ \A r \in Tasks : pc[r] \in {"idle", "done"}
        /\ keysOf(disk["Primary"]) = {"bb", "aa"}
        /\ keysOf(disk["Fallback"]) = {"bb", "cc"}


\* ---------------------------------------------------------------------
\* C21 (statement of the claim; it does not hold).  Whenever
\* listMACAddresses of the MACDatabase has returned, after any adds, checks
\* and removes, the totalAccesses it reports equals the sum of accessCount
\* over the entries it lists, so a removed entry leaves no contribution.
\* checkAccess adds one to a counter stored in the file (line 565),
\* removeMACAddress deletes the entry without touching the counter (line
\* 702), and listMACAddresses reports the stored counter (line 760).
C21_ListedTotalIsSumOfCounts ==
    \A r \in Tasks :
        (dbCall[r].op = "listMACAddresses" /\ dbCall[r].result.returned)
            => dbCall[r].result.statistics.totalAccesses
                    = SumAccessCount(dbCall[r].result.macAddresses)

\* ---------------------------------------------------------------------
\* C25 (statement of the claim; it does not hold).  A listing that has
\* returned holds every entry of the store it read exactly once, in
\* descending order of addedAt, with statistics recomputed from those
\* entries at the time of the listing.  The enhanced handler sorts and
\* recomputes (lines 445-455 of part_000); listMACAddresses of the
\* MACDatabase returns the entries in the order they were added, oldest
\* first, and reports the stored totalAccesses.
C25_ListingSortedWithFreshStatistics ==
    \A r \in Tasks :
        (dbCall[r].op = "listMACAddresses" /\ dbCall[r].result.returned) =>
            LET rows == dbCall[r].result.macAddresses
                read == dbCall[r].data.macAddresses
                stats == dbCall[r].result.statistics
            IN  /\ Len(rows) = Len(read)
                /\ \A k \in MapKeys(read) :
                     Cardinality({i \in 1..Len(rows) : rows[i].macAddress = k}) = 1
                /\ \A i \in 1..Len(rows) :
                     /\ MapHas(read, rows[i].macAddress)
                     /\ rows[i].accessCount
                            = MapGet(read, rows[i].macAddress).accessCount
                /\ \A i, j \in 1..Len(rows) :
                     i < j => rows[i].addedAt >= rows[j].addedAt
                /\ stats.total = Len(read)
                /\ stats.totalAccesses = SumAccessCount(MapValues(read))
                /\ stats.neverUsed =
                     Cardinality({i \in 1..Len(read) : read[i].value.lastSeen = Never})

\* ---------------------------------------------------------------------
\* C28 (statement of the claim; it does not hold).  No promise rejection
\* escapes unhandled, the initialization the MACDatabase constructor starts
\* included.  The constructor calls initializeDatabase without await or
\* catch (line 431) and initializeDatabase rethrows what fs.mkdir or
\* fs.writeFile raised (line 470): the rejection has no handler.
C28_NoUnhandledRejection == dbInit.pc # "rejected"

\* ---------------------------------------------------------------------
\* C29 (statement of the claim; it does not hold).  In api/mac-auth.js a
\* request handled after an earlier one does not clear and reload the store:
\* an entry that an earlier add-mac acknowledged with 201, and that the
\* store holds when the later request's load returns, is in the store the
\* later request's handler runs on, whatever the main file holds.  The
\* handler awaits loadMACWhitelist on every request (line 153), which clears
\* the Map (line 64) and fills it from the main file, stale or not.
C29_StoreNotReloadedOnLaterRequests ==
    [][\A r, q \in Tasks :
        LET reading == {"readMain", "readBackup", "restore"}
            added == toLowerCase(authReq[q].macAddress)
        IN  ( /\ r # q
              /\ authReq[q].pc = "done"
              /\ authReq[q].action = "add-mac"
              /\ authReq[q].status = 201
              /\ MapHas(macWhitelist, added)
              /\ authReq[r].pc \in reading
              /\ authReq'[r].pc \notin reading )
            => MapHas(authReq'[r].seen, added)]_vars

\* ---------------------------------------------------------------------
\* C32 (statement of the claim; it does not hold).  Two add-mac requests of
\* one instance for the same lowercased address, which the storage does not
\* hold, both with the admin key: when both have been answered, one got 201
\* and the other 409, and the store holds one entry for the address.  The
\* duplicate check (line 312) and the insert (line 329) run without an await
\* between them, but on a fresh process the load of the second request
\* clears the store after the first request inserted.
C32_OneAddWinsOtherConflicts ==
    \A r, q \in Tasks :
        LET key == toLowerCase(req[r].macAddress)
        IN  ( /\ r # q
              /\ req[r].action = "add-mac" /\ req[q].action = "add-mac"
              /\ req[r].adminKey = ADMIN_SECRET_KEY
              /\ req[q].adminKey = ADMIN_SECRET_KEY
              /\ req[r].macAddress # Missing /\ req[q].macAddress # Missing
              /\ toLowerCase(req[q].macAddress) = key
              /\ key # "bb"
              /\ resp[r].sent /\ resp[q].sent )
            => /\ {resp[r].status, resp[q].status} = {201, 409}
               /\ Cardinality({i \in 1..Len(memoryStore.macAddresses) :
                                 memoryStore.macAddresses[i].key = key}) = 1

\* ---------------------------------------------------------------------
\* C33 (statement of the claim; it does not hold).  Once a request has
\* mutated the store (every mutation that is acknowledged starts a persist,
\* so saveCount is positive), no step of a load changes the entries of the
\* store.  The second of two requests that arrived before initialization
\* completed is already inside loadFromStorage, whose lines 61-64 clear the
\* store and fill it from the file when its readFile returns.
C33_LoadNeverDiscardsMutation ==
    [][\A r \in Tasks :
          (pc[r] = "readFile" /\ pc'[r] # "readFile" /\ saveCount > 0) =>
              memoryStore'.macAddresses = memoryStore.macAddresses]_vars

\* ---------------------------------------------------------------------
\* C34 (statement of the claim; it does not hold).  With every location
\* accepting writes: the write of an older persist never lands in a location
\* after the write of a newer one, and once no persist is in flight every
\* location holds the entries of the store.  The persists of two requests
\* overlap (check-access does not await its own, line 272), each is a chain
\* of awaited fs calls, and nothing orders the completions of two chains.
C34_OlderPersistNeverOverwritesNewer ==
    /\ [][\A l \in LocationNames : landed'[l] >= landed[l]]_vars
    /\ []( ( /\ saveCount > 0
             /\ \A r \in Tasks : pc[r] \in {"idle", "done"} ) =>
           \A l \in LocationNames :
               disk[l].macAddresses = MapValues(memoryStore.macAddresses) )

\* ---------------------------------------------------------------------
\* C35 (statement of the claim; it does not hold).  The process is recycled
\* after the persist of its last mutation returned true, with the locations
\* intact: the load of the new process, before any mutation of its own,
\* leaves in the store exactly the entries of that snapshot, also when the
\* write to the primary location had failed.  saveToStorage returns true
\* when any location accepted the write (line 127) and loadFromStorage takes
\* the first location that parses, primary first (lines 52-73).
C35_LoadAfterRecycleYieldsPersisted ==
    [][\A r \in Tasks :
          (recycled.n = 1 /\ saveCount = 0
               /\ pc[r] = "readFile" /\ pc'[r] = "loaded") =>
              MapValues(memoryStore'.macAddresses) = recycled.data.macAddresses]_vars

\* ---------------------------------------------------------------------
\* C36 -- one saveToStorage call serializes its snapshot once: the snapshot
\* is the store as the call finds it, it does not change while the call is
\* writing, whatever other requests do to the store meanwhile, and every
\* location that accepts the write holds exactly that snapshot when its
\* writeFile returns.
C36_SnapshotSerializedOnce ==
    [][\A r \in Tasks :
          /\ (pc[r] = "loaded" /\ pc'[r] = "mkdir") =>
                 save'[r].data = Snapshot(memoryStore', now)
          /\ (pc[r] \in {"mkdir", "writeFile"} /\ save'[r].id = save[r].id) =>
                 save'[r].data = save[r].data
          /\ (pc[r] = "writeFile" /\ save'[r].results # save[r].results
                  /\ Locations[save[r].target] \in fs.writable) =>
                 disk'[Locations[save[r].target]] = Stringify(save[r].data)]_vars

\* C36 witness: a persist is still writing; the primary location holds its
\* snapshot, and another request has added an entry to the store since, so
\* that the snapshot is no longer what the store holds
C36_Witness ==
    \E r, q \in Tasks :
        /\ r # q
        /\ pc[r] = "writeFile"
        /\ save[r].target = 2
        /\ landed["Primary"] = save[r].id
        /\ disk["Primary"] = Stringify(save[r].data)
        /\ req[q].action = "add-mac"
        /\ pc[q] = "mkdir"
        /\ Len(memoryStore.macAddresses) = Len(save[r].data.macAddresses) + 1
        /\ save[r].data.macAddresses # MapValues(memoryStore.macAddresses)

\* ---------------------------------------------------------------------
\* C37 (statement of the claim; it does not hold).  Two mutating calls on the
\* MACDatabase, addMACAddress or checkAccess, on distinct addresses, the only
\* calls made: when both have returned success the file holds the effect of
\* both, the added entry and the counted access.  Each call reads the whole
\* file, changes its own copy and writes the whole file back (lines 608-627,
\* 547-567); the later write replaces the file with a copy that was read
\* before the earlier write.
C37_NoLostUpdate ==
    \A r, q \in Tasks :
        LET mutating == {"addMACAddress", "checkAccess"}
            key(call) == IF call.op = "addMACAddress"
                         THEN toLowerCase(call.macAddress)
                         ELSE toLowerCase(call.macAddresses[1])
            effect(call) ==
                /\ MapHas(macFile.macAddresses, key(call))
                /\ call.op = "checkAccess" =>
                       MapGet(macFile.macAddresses, key(call)).accessCount
                           >= MapGet(call.data.macAddresses, key(call)).accessCount
        IN  ( /\ r # q
              /\ dbCalls = 2
              /\ dbCall[r].op \in mutating /\ dbCall[q].op \in mutating
              /\ dbCall[r].pc = "done" /\ dbCall[q].pc = "done"
              /\ dbCall[r].result.success /\ dbCall[q].result.success
              /\ key(dbCall[r]) # key(dbCall[q]) )
            => effect(dbCall[r]) /\ effect(dbCall[q])

\* ---------------------------------------------------------------------
\* C38 (statement of the claim; it does not hold).  A handler of the
\* enhanced handler that answers 400, 403, 404, 409 or 500 leaves the entries
\* of the store as it found them; a bulk-add answered 500 has added none of
\* its items.  handleBulkAdd inserts each valid item as the loop reaches it
\* (line 505); a later item that is null throws in the destructuring of line
\* 481 and the catch of line 203 answers 500 with the earlier items in the
\* store.
C38_ErrorResponseLeavesStoreUnchanged ==
    [][\A r \in Tasks :
          (pc[r] = "loaded" /\ pc'[r] = "done"
               /\ resp'[r].status \in {400, 403, 404, 409, 500}) =>
              memoryStore'.macAddresses = memoryStore.macAddresses]_vars


\* C39 -- after a step that ran updateStatistics (list-macs with the admin
\* key), whatever the entries and the statistics were before:
\* activeLast24h <= activeLast7d <= total - neverUsed and
\* 0 <= neverUsed <= total; every entry whose lastSeen is null is counted in
\* neverUsed, and the active counters count no such entry.
C39_StatisticsOrdered ==
    [][\A r \in Tasks :
          (/\ pc[r] = "loaded" /\ pc'[r] # "loaded"
           /\ req'[r].action = "list-macs"
           /\ req'[r].adminKey = ADMIN_SECRET_KEY) =>
              LET m == memoryStore'.macAddresses
                  counters == memoryStore'.statistics
                  unseen == {k \in MapKeys(m) : MapGet(m, k).lastSeen = Never}
              IN  /\ counters.activeLast24h <= counters.activeLast7d
                  /\ counters.activeLast7d <= counters.total - counters.neverUsed
                  /\ 0 <= counters.neverUsed
                  /\ counters.neverUsed <= counters.total
                  /\ 0 <= counters.activeLast24h
                  /\ Cardinality(unseen) <= counters.neverUsed
                  /\ counters.activeLast7d <= Cardinality(MapKeys(m) \ unseen)]_vars

\* C39 witness: a store of one entry last seen within the week but not
\* within the day and one never seen was listed: no entry active in the last
\* day, one in the last week, one never used out of two
C39_Witness ==
    \E r \in Tasks :
        /\ req[r].action = "list-macs"
        /\ resp[r].status = 200
        /\ Len(memoryStore.macAddresses) = 2
        /\ memoryStore.macAddresses[1].value.lastSeen = now - (OneWeek - 1)
        /\ memoryStore.macAddresses[2].value.lastSeen = Never
        /\ memoryStore.statistics.activeLast24h = 0
        /\ memoryStore.statistics.activeLast7d = 1
        /\ memoryStore.statistics.neverUsed = 1
        /\ memoryStore.statistics.total = 2

\* C40 -- the persisted access log never holds more than 500 events and its
\* events are in chronological order; every change of the persisted log
\* appends one event to what the log held, dropping the oldest event exactly
\* when the log was full; and the event of a logAccess call whose write was
\* accepted is the last event of the log when the call returns.
C40_LogKeepsMostRecent ==
    /\ [](LET accessEvents == logFile.accessEvents
          IN  /\ Len(accessEvents) <= LogLimit
              /\ \A i \in 1..(Len(accessEvents) - 1) :
                     accessEvents[i].timestamp <= accessEvents[i + 1].timestamp)
    /\ [][LET before == logFile.accessEvents
              after == logFile'.accessEvents
          IN  /\ after # before =>
                     /\ Len(after) > 0
                     /\ IF Len(before) = LogLimit
                        THEN SubSeq(after, 1, Len(after) - 1) = Tail(before)
                        ELSE SubSeq(after, 1, Len(after) - 1) = before
              /\ \A r \in Tasks :
                     (dbCall[r].pc = "writeLog" /\ dbCall'[r].pc = "done"
                          /\ dbFs.writable) =>
                         /\ Len(after) > 0
                         /\ after[Len(after)].id =
                                dbCall[r].logData.accessEvents[
                                    Len(dbCall[r].logData.accessEvents)].id
                         /\ IF Len(before) = LogLimit
                            THEN SubSeq(after, 1, Len(after) - 1) = Tail(before)
                            ELSE SubSeq(after, 1, Len(after) - 1) = before]_vars

\* C31 -- the counter of an identifier is between 1 and 60 and its window
\* ends one window length after the request that opened it; a request (other
\* than OPTIONS) of an identifier the limiter has not seen is allowed and
\* opens a window with count 1; within the window (up to and including its
\* reset time) a request is allowed and adds 1 while the count is below 60,
\* and is rejected with 429 and leaves the counter and the window as they are
\* once the count is 60; the first request after the reset time is allowed
\* and opens a new window with count 1; no request changes the counter or
\* window of another identifier.
C31_FixedWindowPerIdentifier ==
    /\ [](\A i \in 1..Len(rateLimitStore) :
             /\ rateLimitStore[i].value.count \in 1..RATE_LIMIT
             /\ rateLimitStore[i].value.resetTime <= now + RATE_LIMIT_WINDOW)
    /\ [][(now' = now /\ rateCall'.method # "OPTIONS") =>
             LET identifier == rateCall'.identifier
                 before == rateLimitStore
                 after == rateLimitStore'
                 opened == [count |-> 1, resetTime |-> now + RATE_LIMIT_WINDOW]
             IN  /\ \A k \in MapKeys(before) \ {identifier} :
                        MapHas(after, k) /\ MapGet(after, k) = MapGet(before, k)
                 /\ MapKeys(after) = MapKeys(before) \cup {identifier}
                 /\ IF ~MapHas(before, identifier)
                    THEN rateCall'.allowed /\ MapGet(after, identifier) = opened
                    ELSE IF now > MapGet(before, identifier).resetTime
                    THEN rateCall'.allowed /\ MapGet(after, identifier) = opened
                    ELSE IF MapGet(before, identifier).count = RATE_LIMIT
                    THEN /\ ~rateCall'.allowed
                         /\ rateCall'.status = 429
                         /\ MapGet(after, identifier) = MapGet(before, identifier)
                    ELSE /\ rateCall'.allowed
                         /\ MapGet(after, identifier) =
                                [MapGet(before, identifier) EXCEPT !.count = @ + 1]]_vars

\* C31 witness: ip1 has used its 60 requests and its last request, inside
\* the window, was rejected with 429, while ip2 has a counter of its own in
\* a window that started later
C31_Witness ==
    /\ MapHas(rateLimitStore, "ip1")
    /\ MapHas(rateLimitStore, "ip2")
    /\ MapGet(rateLimitStore, "ip1").count = RATE_LIMIT
    /\ MapGet(rateLimitStore, "ip2").count = 2
    /\ MapGet(rateLimitStore, "ip2").resetTime > MapGet(rateLimitStore, "ip1").resetTime
    /\ now <= MapGet(rateLimitStore, "ip1").resetTime
    /\ rateCall.identifier = "ip1"
    /\ rateCall.status = 429
====
